---- MODULE Spec2Model ----
(***************************************************************************)
(* Model of the hydro compiler: Parser (src/src/parser.hpp), Generator     *)
(* (src/src/generation.hpp) and the execution of the emitted assembly.     *)
(*                                                                         *)
(* A compilation starts from a token vector (what Tokenizer::tokenize      *)
(* returns).  Parser::parse_prog is a function of that vector and is       *)
(* modelled by recursive operators; the Generator is modelled step by      *)
(* step, its C++ call stack being the sequence gen_work; the emitted       *)
(* lines are then executed one instruction per step.                       *)
(*                                                                         *)
(* 64-bit words are represented by small integers: the integer n stands    *)
(* for the word n mod 2^64 (so -1 stands for 2^64 - 1).  Literals are      *)
(* small, so sums, differences and products stay exact.                    *)
(***************************************************************************)
EXTENDS Integers, Sequences, FiniteSets, TLC

VARIABLES m_size, m_buffer, m_offset, handed, last_alloc,
          m_src, tokens, stage, prog, diag,
          gen_work, m_output, m_stack_size, m_vars, m_scopes, m_label_count,
          ip, sp, mem, regs, zf, status

vars == <<m_size, m_buffer, m_offset, handed, last_alloc,
          m_src, tokens, stage, prog, diag,
          gen_work, m_output, m_stack_size, m_vars, m_scopes, m_label_count,
          ip, sp, mem, regs, zf, status>>

arenaVars == <<m_size, m_buffer, m_offset, handed, last_alloc>>
lexVars == <<m_src, tokens>>
parserVars == <<tokens, prog>>
genVars == <<gen_work, m_output, m_stack_size, m_vars, m_scopes, m_label_count>>
cpuVars == <<ip, sp, mem, regs, zf, status>>

(***************************************************************************)
(* Bounds of the model.                                                    *)
(***************************************************************************)
MaxLit == 3        \* literals of the three-term expressions are 1..MaxLit
MaxDepth == 2      \* nesting depth of the scopes of the scoping programs
MaxElif == 2       \* number of elif tails of the if chains
MaxBreaks == 1     \* newlines placed in a program with a syntax error
MaxLexemes == 2    \* lexemes of the texts that exercise the tokenizer
MaxPieces == 2     \* comments and lines in front of the last token of a text
MaxParts == 3      \* statements and stray characters of a text with several errors
MaxCapacity == 16  \* largest capacity of the arena, in bytes
MaxAllocs == 4     \* requests made to one arena
MemSlots == 6      \* stack slots of the target machine that are modelled
Wide == 30000      \* words of magnitude below Wide are modelled exactly

(***************************************************************************)
(* Tokens (struct Token): type, line, optional text payload.  The payload  *)
(* is a sequence of characters; NoValue is the empty optional.             *)
(***************************************************************************)
NoValue == <<>>

Token(type, line, value) == [type |-> type, line |-> line, value |-> value]

NoToken == Token("none", 0, NoValue)

\* A word is a token without its line; Lines places a word sequence on
\* lines: breaks is the set of positions k such that a newline precedes
\* word k.
W(type) == [type |-> type, value |-> NoValue]
WInt(c) == [type |-> "int_lit", value |-> <<c>>]
WId(c) == [type |-> "ident", value |-> <<c>>]

Lines(words, breaks) ==
    [k \in 1..Len(words) |->
        Token(words[k].type, 1 + Cardinality({b \in breaks : b <= k}), words[k].value)]

OneLine(words) == Lines(words, {})

RECURSIVE Flatten(_)
Flatten(ss) == IF ss = <<>> THEN <<>> ELSE Head(ss) \o Flatten(Tail(ss))

RECURSIVE Repeat(_, _)
Repeat(s, n) == IF n = 0 THEN <<>> ELSE s \o Repeat(s, n - 1)

SeqsUpTo(S, n) == UNION {[1..k -> S] : k \in 0..n}

Remove(s, d) == [k \in 1..(Len(s) - 1) |-> IF k < d THEN s[k] ELSE s[k + 1]]


(***************************************************************************)
(* Diagnostics.  kind is "expected" for Parser::error_expected (message    *)
(* and line), "plain" for a message written to std::cerr without a line,   *)
(* "exception" for an uncaught C++ exception, "semantic" for the           *)
(* Generator's errors.  idx is m_index when the parser stopped.            *)
(***************************************************************************)
NoLine == 0

Diag(kind, msg, line, idx) == [kind |-> kind, msg |-> msg, line |-> line, idx |-> idx]

NoDiag == Diag("none", "", NoLine, 0)

(***************************************************************************)
(* ArenaAllocator (arena.hpp).  Addresses are integers; m_buffer is the    *)
(* address new std::byte[m_size] returned, m_offset the next free address. *)
(* handed lists the blocks alloc returned; last_alloc is the type of the   *)
(* latest request and its outcome.                                         *)
(***************************************************************************)
Type(size, align) == [size |-> size, align |-> align]

\* sizeof(T) and alignof(T) of the types requested
Types == {Type(1, 1), Type(4, 4), Type(8, 8), Type(16, 8)}

BaseAddresses == {16, 19}

NoAlloc == [type |-> Type(0, 1), result |-> "none"]

\* The first multiple of align that is >= addr
AlignUp(addr, align) == ((addr + align - 1) \div align) * align

\* std::align(align, size, ptr, space) fails when size and the padding do
\* not fit in space
FitsIgnoringPadding(type, ptr, space) == space >= type.size

Fits(type, ptr, space) ==
    space >= type.size /\ AlignUp(ptr, type.align) - ptr <= space - type.size

\* The arena of the Parser is constructed with 4 MB (parser.hpp:159); no
\* program of the model exhausts it, so the compilation keeps it as it is.
ParserArenaBytes == 1024 * 1024 * 4

IdleArena ==
    /\ m_size = ParserArenaBytes
    /\ m_buffer \in {16}
    /\ m_offset = m_buffer
    /\ handed = <<>>
    /\ last_alloc = NoAlloc

\* ArenaAllocator(max_num_bytes)
InitArena ==
    /\ m_size \in 0..MaxCapacity
    /\ m_buffer \in BaseAddresses
    /\ m_offset = m_buffer
    /\ handed = <<>>
    /\ last_alloc = NoAlloc

\* ArenaAllocator::alloc<T>(); the std::bad_alloc it throws is caught
\* nowhere, so no request follows a failed one.
alloc ==
    /\ stage = "arena"
    /\ last_alloc.result # "bad_alloc"
    /\ Len(handed) < MaxAllocs
    /\ \E type \in Types :
        LET remaining_num_bytes == m_size - (m_offset - m_buffer)
            aligned_address == AlignUp(m_offset, type.align) IN
        IF Fits(type, m_offset, remaining_num_bytes)
        THEN /\ m_offset' = aligned_address + type.size
             /\ handed' = Append(handed, [addr |-> aligned_address, type |-> type])
             /\ last_alloc' = [type |-> type, result |-> "ok"]
        ELSE /\ last_alloc' = [type |-> type, result |-> "bad_alloc"]
             /\ UNCHANGED <<m_offset, handed>>
    /\ UNCHANGED <<m_size, m_buffer, lexVars, stage, prog, diag, genVars, cpuVars>>

(***************************************************************************)
(* Tokenizer::tokenize.  The source is a sequence of characters, each a    *)
(* string of length one; m_index is 0-based as in the code, so character   *)
(* m_index of the text is src[m_index + 1].                                *)
(***************************************************************************)
NL == "\n"

\* std::isalpha, std::isdigit, std::isalnum, std::isspace on the characters
\* that occur in the sources of the model
Alpha == {"a", "c", "e", "f", "i", "l", "s", "t", "x"}
Digit == {"0", "1", "2", "3", "4", "5", "6", "7", "8", "9"}
AlphaOnly == Alpha

Alnum == Alpha \cup Digit
Space == {" ", "\t"}

\* The end of the run of characters of class that starts at index i
RECURSIVE RunEnd(_, _, _)
RunEnd(src, i, class) ==
    IF i < Len(src) /\ src[i + 1] \in class THEN RunEnd(src, i + 1, class) ELSE i

\* while (peek().has_value() && peek().value() != '\n') consume();
RECURSIVE LineCommentEnd(_, _)
LineCommentEnd(src, i) ==
    IF i < Len(src) /\ src[i + 1] # NL THEN LineCommentEnd(src, i + 1) ELSE i

\* The loop of the block comment: it stops in front of */ or at the end of
\* the text, counting the newlines it consumes.
RECURSIVE BlockCommentEnd(_, _, _)
BlockCommentEnd(src, i, line_count) ==
    IF i >= Len(src) THEN [idx |-> i, line |-> line_count]
    ELSE IF src[i + 1] = "*" /\ i + 1 < Len(src) /\ src[i + 2] = "/"
    THEN [idx |-> i, line |-> line_count]
    ELSE BlockCommentEnd(src, i + 1, IF src[i + 1] = NL THEN line_count + 1 ELSE line_count)

\* if (peek().has_value()) consume(); twice
SkipTwo(src, i) == IF i + 2 <= Len(src) THEN i + 2 ELSE Len(src)

\* The token made of an alphanumeric run
WordToken(buff, line_count) ==
    CASE buff = <<"e", "x", "i", "t">> -> Token("exit", line_count, NoValue)
      [] buff = <<"l", "e", "t">> -> Token("let", line_count, NoValue)
      [] buff = <<"i", "f">> -> Token("if_", line_count, NoValue)
      [] buff = <<"e", "l", "s", "e">> -> Token("else_", line_count, NoValue)
      [] buff = <<"e", "l", "i", "f">> -> Token("elif_", line_count, NoValue)
      [] OTHER -> Token("ident", line_count, buff)

Symbols == {"(", ")", ";", "=", "+", "*", "-", "/", "{", "}"}

SymbolType(c) ==
    CASE c = "(" -> "open_paren"
      [] c = ")" -> "close_paren"
      [] c = ";" -> "semi"
      [] c = "=" -> "eq"
      [] c = "+" -> "plus"
      [] c = "*" -> "star"
      [] c = "-" -> "minus"
      [] c = "/" -> "fslash"
      [] c = "{" -> "open_curly"
      [] c = "}" -> "close_curly"

LexOk(toks) == [st |-> "ok", tokens |-> toks]
LexErr(toks) == [st |-> "err", tokens |-> <<>>]

\* The line counter after a // comment: line_count++ follows the loop that
\* stops in front of the newline (tokenization.hpp:191).
LineAfterComment(line_count) == line_count + 1

\* The character that is no token: exit(EXIT_FAILURE)
\* The last branch of the loop returning the tokens read so far.
InvalidTokenSkipped(toks) == LexOk(toks)

InvalidToken(toks) == LexErr(toks)

\* The locals of tokenize between two iterations of its loop: m_index, the
\* token vector, line_count, and whether the loop has left through the
\* branch of the invalid token.
LoopState(i, toks, line_count, invalid) ==
    [i |-> i, toks |-> toks, line_count |-> line_count, invalid |-> invalid]

\* The branch of the loop body taken at index i: the first of the tests of
\* the if / else if chain that holds there.
BranchAt(src, i) ==
    IF src[i + 1] \in Alpha THEN "alpha"
    ELSE IF src[i + 1] \in Digit THEN "digit"
    ELSE IF src[i + 1] = "/" /\ i + 1 < Len(src) /\ src[i + 2] = "/" THEN "line_comment"
    ELSE IF src[i + 1] = "/" /\ i + 1 < Len(src) /\ src[i + 2] = "*" THEN "block_comment"
    ELSE IF src[i + 1] \in Symbols THEN "symbol"
    ELSE IF src[i + 1] = NL THEN "newline"
    ELSE IF src[i + 1] \in Space THEN "space"
    ELSE "invalid"

\* One iteration of while (peek().has_value()); a loop that has ended stays
\* where it is.
tokenize_body(src, s) ==
    IF s.invalid \/ s.i >= Len(src) THEN s
    ELSE CASE BranchAt(src, s.i) = "alpha" ->
                LoopState(RunEnd(src, s.i + 1, Alnum),
                          Append(s.toks, WordToken(SubSeq(src, s.i + 1, RunEnd(src, s.i + 1, Alnum)),
                                                   s.line_count)),
                          s.line_count, FALSE)
           [] BranchAt(src, s.i) = "digit" ->
                LoopState(RunEnd(src, s.i + 1, Digit),
                          Append(s.toks, Token("int_lit", s.line_count,
                                               SubSeq(src, s.i + 1, RunEnd(src, s.i + 1, Digit)))),
                          s.line_count, FALSE)
           [] BranchAt(src, s.i) = "line_comment" ->
                LoopState(LineCommentEnd(src, s.i + 2), s.toks, LineAfterComment(s.line_count), FALSE)
           [] BranchAt(src, s.i) = "block_comment" ->
                LoopState(SkipTwo(src, BlockCommentEnd(src, s.i + 2, s.line_count).idx), s.toks,
                          BlockCommentEnd(src, s.i + 2, s.line_count).line, FALSE)
           [] BranchAt(src, s.i) = "symbol" ->
                LoopState(s.i + 1,
                          Append(s.toks, Token(SymbolType(src[s.i + 1]), s.line_count, NoValue)),
                          s.line_count, FALSE)
           [] BranchAt(src, s.i) = "newline" -> LoopState(s.i + 1, s.toks, s.line_count + 1, FALSE)
           [] BranchAt(src, s.i) = "space" -> LoopState(s.i + 1, s.toks, s.line_count, FALSE)
           [] BranchAt(src, s.i) = "invalid" -> LoopState(s.i, s.toks, s.line_count, TRUE)

\* n iterations of the loop: the first half of them, and the rest from the
\* state they reach (bound as a value, so that it is computed once)
RECURSIVE Iterations(_, _, _)
Iterations(src, s, n) ==
    IF n = 0 THEN s
    ELSE IF n = 1 THEN tokenize_body(src, s)
    ELSE CHOOSE last \in {Iterations(src, mid, n - n \div 2) :
                             mid \in {Iterations(src, s, n \div 2)}} : TRUE

\* The while loop of tokenize from m_index = i on: every iteration consumes
\* a character at least, so that Len(src) - i iterations end it.
tokenize_loop(src, i, toks, line_count) ==
    CHOOSE r \in {IF last.invalid THEN InvalidToken(last.toks) ELSE LexOk(last.toks) :
                     last \in {Iterations(src, mid, Len(src) - i) :
                                  mid \in {LoopState(i, toks, line_count, FALSE)}}} : TRUE

\* Tokenizer::tokenize
tokenize(src) == tokenize_loop(src, 0, <<>>, 1)

(***************************************************************************)
(* Parse tree nodes (parser.hpp:11-147).  NodeExpr/NodeTerm/NodeBinExpr    *)
(* variants are records tagged by t.                                       *)
(***************************************************************************)
NoNode == [t |-> "none"]

NodeTermIntLit(tok) == [t |-> "int_lit", tok |-> tok]
NodeTermIdent(tok) == [t |-> "ident", tok |-> tok]
NodeTermParen(expr) == [t |-> "paren", expr |-> expr]
NodeBinExpr(op, lhs, rhs) == [t |-> op, lhs |-> lhs, rhs |-> rhs]

NodeStmtExit(expr) == [t |-> "exit", expr |-> expr]
NodeStmtLet(ident, expr) == [t |-> "let", ident |-> ident, expr |-> expr]
NodeStmtAssign(ident, expr) == [t |-> "assign", ident |-> ident, expr |-> expr]
NodeScope(stmts) == [t |-> "scope", stmts |-> stmts]
NodeStmtIf(expr, scope, pred) == [t |-> "if", expr |-> expr, scope |-> scope, pred |-> pred]
NodeIfPredElif(expr, scope, pred) == [t |-> "elif", expr |-> expr, scope |-> scope, pred |-> pred]
NodeIfPredElse(scope) == [t |-> "else", scope |-> scope]
NodeProg(stmts) == [t |-> "prog", stmts |-> stmts]

BinOps == {"add", "multi", "sub", "div"}

(***************************************************************************)
(* Parser primitives.  m_index is 0-based as in the code; token k of the   *)
(* vector is toks[k + 1].                                                  *)
(***************************************************************************)
\* Parser::peek(offset).has_value(): m_index + offset is computed in size_t,
\* so a negative sum wraps to a huge index and yields the empty optional.
HasTok(toks, i, offset) == i + offset >= 0 /\ i + offset < Len(toks)

\* Parser::peek(offset).value()
peek(toks, i, offset) == IF HasTok(toks, i, offset) THEN toks[i + offset + 1] ELSE NoToken

\* peek(offset).has_value() && peek(offset).value().type == type
PeekIs(toks, i, offset, type) == HasTok(toks, i, offset) /\ toks[i + offset + 1].type = type

\* The result of a parse function: st is "ok" (a node), "none" (the empty
\* optional, nothing consumed) or "err" (the process was terminated).
Ok(node, i) == [st |-> "ok", node |-> node, idx |-> i, diag |-> NoDiag]
None(i) == [st |-> "none", node |-> NoNode, idx |-> i, diag |-> NoDiag]
Err(d) == [st |-> "err", node |-> NoNode, idx |-> d.idx, diag |-> d]

BadOptionalAccess(i) == Diag("exception", "bad_optional_access", NoLine, i)

Plain(msg, i) == Diag("plain", msg, NoLine, i)

\* The line Parser::error_expected prints: that of peek(-1).
ErrorLineOffset == 0 - 1

error_expected_at_peek(toks, i, msg) ==
    IF HasTok(toks, i, 0)
    THEN Diag("expected", msg, peek(toks, i, 0).line, i)
    ELSE BadOptionalAccess(i)

\* Parser::error_expected
error_expected(toks, i, msg) ==
    IF HasTok(toks, i, ErrorLineOffset)
    THEN Diag("expected", msg, peek(toks, i, ErrorLineOffset).line, i)
    ELSE BadOptionalAccess(i)

\* to_string(TokenType); the text is written without its backquotes
to_string(type) ==
    CASE type = "exit" -> "exit"
      [] type = "int_lit" -> "int literal"
      [] type = "semi" -> ";"
      [] type = "open_paren" -> "("
      [] type = "close_paren" -> ")"
      [] type = "ident" -> "identifier"
      [] type = "let" -> "let"
      [] type = "eq" -> "="
      [] type = "plus" -> "+"
      [] type = "star" -> "*"
      [] type = "minus" -> "-"
      [] type = "fslash" -> "/"
      [] type = "open_curly" -> "{"
      [] type = "close_curly" -> "}"
      [] type = "if_" -> "if"
      [] type = "elif_" -> "elif"
      [] type = "else_" -> "else"

\* Parser::try_consume_err: "ok" with the index after the token, or the
\* error_expected diagnostic.
try_consume_err(toks, i, type) ==
    IF PeekIs(toks, i, 0, type)
    THEN Ok(NoNode, i + 1)
    ELSE Err(error_expected(toks, i, to_string(type)))

\* checkAndGetBinaryPrecedence; NoPrec is the empty optional.
NoPrec == 0 - 1

FlatPrecedence(type) ==
    IF type \in {"plus", "minus", "star", "fslash"} THEN 0 ELSE NoPrec

checkAndGetBinaryPrecedence(type) ==
    CASE type \in {"plus", "minus"} -> 0
      [] type \in {"star", "fslash"} -> 1
      [] OTHER -> NoPrec

\* parse_expr: const int next_min_prec = prec.value() + 1
SamePrec(prec) == prec

NextMinPrec(prec) == prec + 1

\* The node kind parse_expr builds for an operator token (parser.hpp:244-267)
BinOpOf(type) ==
    CASE type = "plus" -> "add"
      [] type = "star" -> "multi"
      [] type = "minus" -> "sub"
      [] type = "fslash" -> "div"


(***************************************************************************)
(* exit(EXIT_FAILURE) and an uncaught exception end the process inside     *)
(* whatever call is active: a result "err" is handed up unchanged.         *)
(* AndThen(r, K) is "r, and unless the process ended, K of r's result";    *)
(* Required(r, d, K) is the same for an optional result that must have a   *)
(* value: the empty optional ends the process with diagnostic d.           *)
(***************************************************************************)
AndThen(r, K(_)) == IF r.st = "err" THEN r ELSE K(r)

Required(r, msg, K(_)) ==
    IF r.st = "err" THEN r
    ELSE IF r.st = "none" THEN Err(Plain(msg, r.idx))
    ELSE K(r)

(***************************************************************************)
(* Parser::parse_term / parse_expr (precedence climbing).  The while loop  *)
(* of parse_expr is parse_expr_loop, whose argument expr is the running    *)
(* expression.                                                             *)
(***************************************************************************)
RECURSIVE parse_term(_, _), parse_expr(_, _, _), parse_expr_loop(_, _, _, _)

parse_term(toks, i) ==
    IF PeekIs(toks, i, 0, "int_lit") THEN Ok(NodeTermIntLit(peek(toks, i, 0)), i + 1)
    ELSE IF PeekIs(toks, i, 0, "ident") THEN Ok(NodeTermIdent(peek(toks, i, 0)), i + 1)
    ELSE IF PeekIs(toks, i, 0, "open_paren") THEN
        AndThen(parse_expr(toks, i + 1, 0), LAMBDA e :
            IF e.st = "none" THEN Err(error_expected(toks, e.idx, "expression"))
            ELSE AndThen(try_consume_err(toks, e.idx, "close_paren"), LAMBDA c :
                Ok(NodeTermParen(e.node), c.idx)))
    ELSE None(i)

parse_expr_loop(toks, expr, i, min_prec) ==
    IF ~HasTok(toks, i, 0) THEN Ok(expr, i)
    ELSE IF checkAndGetBinaryPrecedence(peek(toks, i, 0).type) = NoPrec
            \/ checkAndGetBinaryPrecedence(peek(toks, i, 0).type) < min_prec
    THEN Ok(expr, i)
    ELSE AndThen(parse_expr(toks, i + 1,
                            NextMinPrec(checkAndGetBinaryPrecedence(peek(toks, i, 0).type))),
                 LAMBDA expr_rhs :
            IF expr_rhs.st = "none"
            THEN Err(error_expected(toks, expr_rhs.idx, "RHS of Binary Expression"))
            ELSE parse_expr_loop(toks,
                                 NodeBinExpr(BinOpOf(peek(toks, i, 0).type), expr, expr_rhs.node),
                                 expr_rhs.idx, min_prec))

parse_expr(toks, i, min_prec) ==
    AndThen(parse_term(toks, i), LAMBDA term :
        IF term.st = "none" THEN term
        ELSE parse_expr_loop(toks, term.node, term.idx, min_prec))

(***************************************************************************)
(* Parser::parse_scope / parse_if_pred / parse_stmt / parse_prog.          *)
(* NodeStmtAssign is obtained with alloc<>() (raw arena bytes, no          *)
(* constructor) and its Token member is then move-assigned: the            *)
(* std::optional<std::string> of that Token reads its uninitialised        *)
(* engaged flag.  engaged is the value that read yields; TRUE makes the    *)
(* assignment operate on a std::string that was never constructed.         *)
(***************************************************************************)
RECURSIVE parse_stmt(_, _, _), parse_scope(_, _, _), parse_scope_loop(_, _, _, _),
          parse_if_pred(_, _, _)

UninitialisedToken(i) == Diag("exception", "assignment to unconstructed std::string", NoLine, i)

parse_scope_loop(toks, stmts, i, engaged) ==
    AndThen(parse_stmt(toks, i, engaged), LAMBDA stmt :
        IF stmt.st = "ok"
        THEN parse_scope_loop(toks, Append(stmts, stmt.node), stmt.idx, engaged)
        ELSE AndThen(try_consume_err(toks, stmt.idx, "close_curly"), LAMBDA c :
                Ok(NodeScope(stmts), c.idx)))

parse_scope(toks, i, engaged) ==
    IF ~PeekIs(toks, i, 0, "open_curly") THEN None(i)
    ELSE parse_scope_loop(toks, <<>>, i + 1, engaged)

\* "( expr ) scope" as it follows if and elif; no_expr and no_scope are the
\* messages written when the expression resp. the scope is missing.
CondScope(toks, i, engaged, no_expr, no_scope, K(_, _)) ==
    AndThen(try_consume_err(toks, i, "open_paren"), LAMBDA o :
    Required(parse_expr(toks, o.idx, 0), no_expr, LAMBDA expr :
    AndThen(try_consume_err(toks, expr.idx, "close_paren"), LAMBDA c :
    Required(parse_scope(toks, c.idx, engaged), no_scope, LAMBDA scope :
    K(expr, scope)))))

parse_if_pred(toks, i, engaged) ==
    IF PeekIs(toks, i, 0, "elif_") THEN
        CondScope(toks, i + 1, engaged, "Exprected an expression.", "Exprected a scope.",
            LAMBDA expr, scope :
                AndThen(parse_if_pred(toks, scope.idx, engaged), LAMBDA pred :
                    Ok(NodeIfPredElif(expr.node, scope.node, pred.node), pred.idx)))
    ELSE IF PeekIs(toks, i, 0, "else_") THEN
        Required(parse_scope(toks, i + 1, engaged), "Exprected a scope.", LAMBDA scope :
            Ok(NodeIfPredElse(scope.node), scope.idx))
    ELSE None(i)

\* "expr ;" as it ends the let and the assignment statements
ExprSemi(toks, i, msg, K(_, _)) ==
    Required(parse_expr(toks, i, 0), msg, LAMBDA expr :
    AndThen(try_consume_err(toks, expr.idx, "semi"), LAMBDA s :
    K(expr, s)))

parse_stmt(toks, i, engaged) ==
    \* line 355: peek().value() is evaluated without has_value()
    IF ~HasTok(toks, i, 0) THEN Err(BadOptionalAccess(i))
    ELSE IF PeekIs(toks, i, 0, "exit") /\ PeekIs(toks, i, 1, "open_paren") THEN
        Required(parse_expr(toks, i + 2, 0), "Invalid expression", LAMBDA expr :
        AndThen(try_consume_err(toks, expr.idx, "close_paren"), LAMBDA c :
        AndThen(try_consume_err(toks, c.idx, "semi"), LAMBDA s :
        Ok(NodeStmtExit(expr.node), s.idx))))
    ELSE IF PeekIs(toks, i, 0, "let") /\ PeekIs(toks, i, 1, "ident") /\ PeekIs(toks, i, 2, "eq") THEN
        ExprSemi(toks, i + 3, "Invalid expression", LAMBDA expr, s :
            Ok(NodeStmtLet(peek(toks, i, 1), expr.node), s.idx))
    ELSE IF PeekIs(toks, i, 0, "ident") /\ PeekIs(toks, i, 1, "eq") THEN
        IF engaged THEN Err(UninitialisedToken(i)) ELSE
        ExprSemi(toks, i + 2, "Expected expression", LAMBDA expr, s :
            Ok(NodeStmtAssign(peek(toks, i, 0), expr.node), s.idx))
    ELSE IF PeekIs(toks, i, 0, "open_curly") THEN
        parse_scope(toks, i, engaged)
    ELSE IF PeekIs(toks, i, 0, "if_") THEN
        CondScope(toks, i + 1, engaged, "Invalid expression", "Invalid scope",
            LAMBDA expr, scope :
                AndThen(parse_if_pred(toks, scope.idx, engaged), LAMBDA pred :
                    Ok(NodeStmtIf(expr.node, scope.node, pred.node), pred.idx)))
    ELSE None(i)

RECURSIVE parse_prog_loop(_, _, _, _)
parse_prog_loop(toks, stmts, i, engaged) ==
    IF ~HasTok(toks, i, 0) THEN Ok(NodeProg(stmts), i)
    ELSE Required(parse_stmt(toks, i, engaged), "Invalid statement", LAMBDA stmt :
            parse_prog_loop(toks, Append(stmts, stmt.node), stmt.idx, engaged))

parse_prog(toks, engaged) == parse_prog_loop(toks, <<>>, 0, engaged)

(***************************************************************************)
(* Emitted assembly.  One record per line of m_output: op names the        *)
(* instruction, reg its register operand, n its numeric operand (byte      *)
(* offset or label number; "label<n>" is the label create_label returns    *)
(* for m_label_count = n), txt the literal text copied from an int_lit.    *)
(***************************************************************************)
Ins(op, reg, n, txt) == [op |-> op, reg |-> reg, n |-> n, txt |-> txt]

Global == Ins("global", "", 0, <<>>)                \* global _start
Start == Ins("start", "", 0, <<>>)                  \* _start:
Comment(c) == Ins("comment", c, 0, <<>>)            \* ;; c
MovImm(reg, txt) == Ins("mov_imm", reg, 0, txt)     \* mov reg, txt
PushReg(reg) == Ins("push", reg, 0, <<>>)           \* push reg
PushMem(off) == Ins("push_mem", "", off, <<>>)      \* push QWORD [rsp + off]
PopReg(reg) == Ins("pop", reg, 0, <<>>)             \* pop reg
Arith(op) == Ins(op, "", 0, <<>>)                   \* add rax, rbx / sub rax, rbx / mul rbx / div rbx
Test == Ins("test", "rax", 0, <<>>)                 \* test rax, rax
Jz(l) == Ins("jz", "", l, <<>>)                     \* jz label<l>
Jmp(l) == Ins("jmp", "", l, <<>>)                   \* jmp label<l>
Label(l) == Ins("label", "", l, <<>>)               \* label<l>:
AddRsp(n) == Ins("add_rsp", "", n, <<>>)            \* add rsp, n
Store(off) == Ins("store", "rax", off, <<>>)        \* mov [rsp + off], rax
Syscall == Ins("syscall", "", 0, <<>>)              \* syscall

\* The instruction each BinExprVisitor overload emits between the pops and
\* the push.
BinInstr(t) ==
    CASE t = "add" -> Arith("add")
      [] t = "multi" -> Arith("mul")
      [] t = "sub" -> Arith("sub")
      [] t = "div" -> Arith("div")

(***************************************************************************)
(* Generator state and helpers.  gen_work is the C++ call stack of the     *)
(* generate_* functions: its head is what executes next; an entry is a     *)
(* node to generate or the rest of a function after a nested call.         *)
(* m_stack_size is a size_t: an integer below zero stands for the wrapped  *)
(* value (2^64 minus its magnitude).                                       *)
(***************************************************************************)
Item(op, node, a, b) == [op |-> op, node |-> node, a |-> a, b |-> b]

WNode(op, node) == Item(op, node, 0, 0)
WRest(op) == Item(op, NoNode, 0, 0)

StmtItems(stmts) == [k \in 1..Len(stmts) |-> WNode("stmt", stmts[k])]

Var(name, stack_loc) == [name |-> name, stack_loc |-> stack_loc]

\* std::find_if(m_vars.cbegin(), m_vars.cend(), name equal): the position
\* (1-based) of the first entry of that name, 0 for cend().
LastVar(table, name) ==
    LET hits == {k \in 1..Len(table) : table[k].name = name} IN
    IF hits = {} THEN 0 ELSE CHOOSE k \in hits : \A j \in hits : j <= k

FindVar(table, name) ==
    LET hits == {k \in 1..Len(table) : table[k].name = name} IN
    IF hits = {} THEN 0 ELSE CHOOSE k \in hits : \A j \in hits : k <= j

\* The duplicate test of the let statement (generation.hpp:234-236): the name
\* is searched in the whole variable table.
NeverDeclared(table, name) == FALSE

\* The duplicate test of a let that looks only at the entries above the
\* innermost checkpoint.
DeclaredInInnermostScope(table, name) ==
    \E k \in ((IF m_scopes = <<>> THEN 0 ELSE m_scopes[Len(m_scopes)]) + 1)..Len(table) :
        table[k].name = name

IsDeclared(table, name) == FindVar(table, name) # 0

\* The test of a read or an assignment (generation.hpp:41, 251).
IsUndeclared(table, name) == FindVar(table, name) = 0

\* (gen.m_stack_size - it->stack_loc - 1) * 8
SlotOffset(stack_size, stack_loc) == (stack_size - stack_loc - 1) * 8

SemanticError(msg) == Diag("semantic", msg, NoLine, 0)

GenHead(op) == stage = "gen" /\ gen_work # <<>> /\ Head(gen_work).op = op

GenHeadNode(op, t) == GenHead(op) /\ Head(gen_work).node.t = t

\* One step of the generator: the lines it appends, the entries that replace
\* the head of the call stack, and the new stack height.
GenStep(lines, items, size) ==
    /\ m_output' = m_output \o lines
    /\ gen_work' = items \o Tail(gen_work)
    /\ m_stack_size' = size
    /\ UNCHANGED <<arenaVars, lexVars, prog, stage, diag, cpuVars>>

\* exit(EXIT_FAILURE) inside the generator: nothing is returned.
GenAbort(lines, d) ==
    /\ stage' = "gen_error"
    /\ diag' = d
    /\ m_output' = m_output \o lines
    /\ UNCHANGED <<arenaVars, lexVars, prog, gen_work, m_stack_size, m_vars, m_scopes, m_label_count, cpuVars>>


(***************************************************************************)
(* Generator::generate_program, first part: the prologue, then one call    *)
(* of generate_statement per top-level statement, then the epilogue.       *)
(***************************************************************************)
generate_program ==
    /\ stage = "parsed"
    /\ stage' = "gen"
    /\ m_output' = <<Global, Start>>
    /\ gen_work' = StmtItems(prog.stmts) \o <<WRest("epilogue")>>
    /\ UNCHANGED <<arenaVars, lexVars, prog, diag, m_stack_size, m_vars, m_scopes, m_label_count, cpuVars>>

\* generate_program, after the loop: the default exit(0); the text is returned.
generate_epilogue ==
    /\ GenHead("epilogue")
    /\ stage' = "run"
    /\ m_output' = m_output \o <<MovImm("rax", <<"6", "0">>), MovImm("rdi", <<"0">>), Syscall>>
    /\ gen_work' = Tail(gen_work)
    /\ UNCHANGED <<arenaVars, lexVars, prog, diag, m_stack_size, m_vars, m_scopes, m_label_count, cpuVars>>

(***************************************************************************)
(* Generator::generate_term (TermVisitor)                                  *)
(***************************************************************************)
TermIntLit ==
    /\ GenHeadNode("expr", "int_lit")
    /\ GenStep(<<MovImm("rax", Head(gen_work).node.tok.value), PushReg("rax")>>,
               <<>>, m_stack_size + 1)
    /\ UNCHANGED <<m_vars, m_scopes, m_label_count>>

TermIdent ==
    /\ GenHeadNode("expr", "ident")
    /\ LET name == Head(gen_work).node.tok.value
           it == FindVar(m_vars, name) IN
       IF IsUndeclared(m_vars, name)
       THEN GenAbort(<<>>, SemanticError("Undeclared Identifier"))
       ELSE /\ GenStep(<<PushMem(SlotOffset(m_stack_size, m_vars[it].stack_loc))>>,
                       <<>>, m_stack_size + 1)
            /\ UNCHANGED <<m_vars, m_scopes, m_label_count>>

TermParen ==
    /\ GenHeadNode("expr", "paren")
    /\ GenStep(<<>>, <<WNode("expr", Head(gen_work).node.expr)>>, m_stack_size)
    /\ UNCHANGED <<m_vars, m_scopes, m_label_count>>

(***************************************************************************)
(* Generator::generate_binary_expression (BinExprVisitor): the right       *)
(* operand is generated first, then the left one; the rest of the          *)
(* overload pops both, applies the operation and pushes the result.        *)
(***************************************************************************)
LhsFirst(node) == <<WNode("expr", node.lhs), WNode("expr", node.rhs)>>

OperandOrder(node) == <<WNode("expr", node.rhs), WNode("expr", node.lhs)>>

generate_binary_expression ==
    /\ GenHead("expr")
    /\ Head(gen_work).node.t \in BinOps
    /\ GenStep(<<>>, OperandOrder(Head(gen_work).node) \o <<WNode("bin_rest", Head(gen_work).node)>>,
               m_stack_size)
    /\ UNCHANGED <<m_vars, m_scopes, m_label_count>>

BinExprRest ==
    /\ GenHead("bin_rest")
    /\ GenStep(<<PopReg("rax"), PopReg("rbx"), BinInstr(Head(gen_work).node.t), PushReg("rax")>>,
               <<>>, m_stack_size - 1 - 1 + 1)
    /\ UNCHANGED <<m_vars, m_scopes, m_label_count>>

(***************************************************************************)
(* Generator::generate_scope with begin_scope / end_scope                  *)
(***************************************************************************)
generate_scope ==
    /\ GenHead("scope")
    /\ m_scopes' = Append(m_scopes, Len(m_vars))
    /\ GenStep(<<>>, StmtItems(Head(gen_work).node.stmts) \o <<WRest("end_scope")>>, m_stack_size)
    /\ UNCHANGED <<m_vars, m_label_count>>

\* end_scope without the loop of pop_back.
EndScopeKeepsVars ==
    /\ GenHead("end_scope")
    /\ LET pop_count == Len(m_vars) - m_scopes[Len(m_scopes)] IN
       /\ GenStep(IF pop_count # 0 THEN <<AddRsp(pop_count * 8)>> ELSE <<>>,
                  <<>>, m_stack_size - pop_count)
       /\ m_vars' = m_vars
       /\ m_scopes' = SubSeq(m_scopes, 1, Len(m_scopes) - 1)
    /\ UNCHANGED m_label_count

\* end_scope without m_scopes.pop_back().
EndScopeKeepsCheckpoint ==
    /\ GenHead("end_scope")
    /\ LET pop_count == Len(m_vars) - m_scopes[Len(m_scopes)] IN
       /\ GenStep(IF pop_count # 0 THEN <<AddRsp(pop_count * 8)>> ELSE <<>>,
                  <<>>, m_stack_size - pop_count)
       /\ m_vars' = SubSeq(m_vars, 1, Len(m_vars) - pop_count)
       /\ m_scopes' = m_scopes
    /\ UNCHANGED m_label_count

\* end_scope without the test pop_count != 0.
EndScopeAlwaysAdjusts ==
    /\ GenHead("end_scope")
    /\ LET pop_count == Len(m_vars) - m_scopes[Len(m_scopes)] IN
       /\ GenStep(<<AddRsp(pop_count * 8)>>, <<>>, m_stack_size - pop_count)
       /\ m_vars' = SubSeq(m_vars, 1, Len(m_vars) - pop_count)
       /\ m_scopes' = SubSeq(m_scopes, 1, Len(m_scopes) - 1)
    /\ UNCHANGED m_label_count

\* end_scope that leaves the slots of the scope on the stack: no add rsp
\* and no change of the height.
EndScopeLeavesSlots ==
    /\ GenHead("end_scope")
    /\ LET pop_count == Len(m_vars) - m_scopes[Len(m_scopes)] IN
       /\ GenStep(<<>>, <<>>, m_stack_size)
       /\ m_vars' = SubSeq(m_vars, 1, Len(m_vars) - pop_count)
       /\ m_scopes' = SubSeq(m_scopes, 1, Len(m_scopes) - 1)
    /\ UNCHANGED m_label_count

\* end_scope without m_stack_size -= pop_count.
EndScopeKeepsHeight ==
    /\ GenHead("end_scope")
    /\ LET pop_count == Len(m_vars) - m_scopes[Len(m_scopes)] IN
       /\ GenStep(IF pop_count # 0 THEN <<AddRsp(pop_count * 8)>> ELSE <<>>,
                  <<>>, m_stack_size)
       /\ m_vars' = SubSeq(m_vars, 1, Len(m_vars) - pop_count)
       /\ m_scopes' = SubSeq(m_scopes, 1, Len(m_scopes) - 1)
    /\ UNCHANGED m_label_count

end_scope ==
    /\ GenHead("end_scope")
    /\ LET pop_count == Len(m_vars) - m_scopes[Len(m_scopes)] IN
       /\ GenStep(IF pop_count # 0 THEN <<AddRsp(pop_count * 8)>> ELSE <<>>,
                  <<>>, m_stack_size - pop_count)
       /\ m_vars' = SubSeq(m_vars, 1, Len(m_vars) - pop_count)
       /\ m_scopes' = SubSeq(m_scopes, 1, Len(m_scopes) - 1)
    /\ UNCHANGED m_label_count


(***************************************************************************)
(* Generator::generate_statement (StmtVisitor)                             *)
(***************************************************************************)
StmtExit ==
    /\ GenHeadNode("stmt", "exit")
    /\ GenStep(<<Comment("exit")>>,
               <<WNode("expr", Head(gen_work).node.expr), WRest("exit_rest")>>, m_stack_size)
    /\ UNCHANGED <<m_vars, m_scopes, m_label_count>>

StmtExitRest ==
    /\ GenHead("exit_rest")
    /\ GenStep(<<MovImm("rax", <<"6", "0">>), PopReg("rdi"), Syscall, Comment("/exit")>>,
               <<>>, m_stack_size - 1)
    /\ UNCHANGED <<m_vars, m_scopes, m_label_count>>

StmtLet ==
    /\ GenHeadNode("stmt", "let")
    /\ LET stmt_let == Head(gen_work).node
           name == stmt_let.ident.value IN
       IF IsDeclared(m_vars, name)
       THEN GenAbort(<<Comment("let")>>, SemanticError("Identifier already used"))
       ELSE /\ m_vars' = Append(m_vars, Var(name, m_stack_size))
            /\ GenStep(<<Comment("let")>>,
                       <<WNode("expr", stmt_let.expr), WRest("let_rest")>>, m_stack_size)
            /\ UNCHANGED <<m_scopes, m_label_count>>

StmtLetRest ==
    /\ GenHead("let_rest")
    /\ GenStep(<<Comment("/let")>>, <<>>, m_stack_size)
    /\ UNCHANGED <<m_vars, m_scopes, m_label_count>>

\* The iterator it found before generate_expression is kept in the entry
\* "assign_rest" as the stack_loc it points at.
StmtAssign ==
    /\ GenHeadNode("stmt", "assign")
    /\ LET stmt_assign == Head(gen_work).node
           name == stmt_assign.ident.value
           it == FindVar(m_vars, name) IN
       IF IsUndeclared(m_vars, name)
       THEN GenAbort(<<Comment("reassign")>>, SemanticError("Undeclared identifier"))
       ELSE /\ GenStep(<<Comment("reassign")>>,
                       <<WNode("expr", stmt_assign.expr),
                         Item("assign_rest", NoNode, m_vars[it].stack_loc, 0)>>, m_stack_size)
            /\ UNCHANGED <<m_vars, m_scopes, m_label_count>>

\* The rest of the assignment with the offset computed before the pop.
StoreBeforePop ==
    /\ GenHead("assign_rest")
    /\ GenStep(<<PopReg("rax"), Store(SlotOffset(m_stack_size, Head(gen_work).a)),
                 Comment("/reassign")>>,
               <<>>, m_stack_size - 1)
    /\ UNCHANGED <<m_vars, m_scopes, m_label_count>>

StmtAssignRest ==
    /\ GenHead("assign_rest")
    /\ GenStep(<<PopReg("rax"), Store(SlotOffset(m_stack_size - 1, Head(gen_work).a)),
                 Comment("/reassign")>>,
               <<>>, m_stack_size - 1)
    /\ UNCHANGED <<m_vars, m_scopes, m_label_count>>

StmtScope ==
    /\ GenHeadNode("stmt", "scope")
    /\ GenStep(<<Comment("scope")>>,
               <<WNode("scope", Head(gen_work).node), WRest("scope_rest")>>, m_stack_size)
    /\ UNCHANGED <<m_vars, m_scopes, m_label_count>>

StmtScopeRest ==
    /\ GenHead("scope_rest")
    /\ GenStep(<<Comment("/scope")>>, <<>>, m_stack_size)
    /\ UNCHANGED <<m_vars, m_scopes, m_label_count>>

StmtIf ==
    /\ GenHeadNode("stmt", "if")
    /\ GenStep(<<Comment("if")>>,
               <<WNode("expr", Head(gen_work).node.expr), WNode("if_cond", Head(gen_work).node)>>,
               m_stack_size)
    /\ UNCHANGED <<m_vars, m_scopes, m_label_count>>

\* after the condition: pop, create_label, test, jz, then the scope
StmtIfCond ==
    /\ GenHead("if_cond")
    /\ LET stmt_if == Head(gen_work).node
           label == m_label_count IN
       /\ m_label_count' = m_label_count + 1
       /\ GenStep(<<PopReg("rax"), Test, Jz(label)>>,
                  <<WNode("scope", stmt_if.scope), Item("if_scope_done", stmt_if, label, 0)>>,
                  m_stack_size - 1)
    /\ UNCHANGED <<m_vars, m_scopes>>

\* after the scope: with a predicate, jmp end_label, label:, the predicate
\* chain and end_label: ; without one, label:
StmtIfScopeDone ==
    /\ GenHead("if_scope_done")
    /\ LET stmt_if == Head(gen_work).node
           label == Head(gen_work).a
           end_label == m_label_count IN
       IF stmt_if.pred.t # "none"
       THEN /\ m_label_count' = m_label_count + 1
            /\ GenStep(<<Jmp(end_label), Label(label)>>,
                       <<Item("pred", stmt_if.pred, 0, end_label), Item("if_end", NoNode, 0, end_label)>>,
                       m_stack_size)
       ELSE /\ m_label_count' = m_label_count
            /\ GenStep(<<Label(label), Comment("/if")>>, <<>>, m_stack_size)
    /\ UNCHANGED <<m_vars, m_scopes>>

StmtIfEnd ==
    /\ GenHead("if_end")
    /\ GenStep(<<Label(Head(gen_work).b), Comment("/if")>>, <<>>, m_stack_size)
    /\ UNCHANGED <<m_vars, m_scopes, m_label_count>>

(***************************************************************************)
(* Generator::generate_if_pred (PredVisitor)                               *)
(***************************************************************************)
PredElif ==
    /\ GenHeadNode("pred", "elif")
    /\ GenStep(<<Comment("elif")>>,
               <<WNode("expr", Head(gen_work).node.expr),
                 Item("elif_cond", Head(gen_work).node, 0, Head(gen_work).b)>>, m_stack_size)
    /\ UNCHANGED <<m_vars, m_scopes, m_label_count>>

PredElifCond ==
    /\ GenHead("elif_cond")
    /\ LET elif == Head(gen_work).node
           label == m_label_count IN
       /\ m_label_count' = m_label_count + 1
       /\ GenStep(<<PopReg("rax"), Test, Jz(label)>>,
                  <<WNode("scope", elif.scope), Item("elif_scope_done", elif, label, Head(gen_work).b)>>,
                  m_stack_size - 1)
    /\ UNCHANGED <<m_vars, m_scopes>>

\* The elif visitor without its jmp end_label.
ElifFallsThrough ==
    /\ GenHead("elif_scope_done")
    /\ LET elif == Head(gen_work).node
           label == Head(gen_work).a
           end_label == Head(gen_work).b IN
       IF elif.pred.t # "none"
       THEN GenStep(<<Label(label)>>, <<Item("pred", elif.pred, 0, end_label)>>, m_stack_size)
       ELSE GenStep(<<>>, <<>>, m_stack_size)
    /\ UNCHANGED <<m_vars, m_scopes, m_label_count>>

\* after the scope: jmp end_label; label: is emitted only in front of a
\* further predicate
PredElifScopeDone ==
    /\ GenHead("elif_scope_done")
    /\ LET elif == Head(gen_work).node
           label == Head(gen_work).a
           end_label == Head(gen_work).b IN
       IF elif.pred.t # "none"
       THEN GenStep(<<Jmp(end_label), Label(label)>>,
                    <<Item("pred", elif.pred, 0, end_label)>>, m_stack_size)
       ELSE GenStep(<<Jmp(end_label)>>, <<>>, m_stack_size)
    /\ UNCHANGED <<m_vars, m_scopes, m_label_count>>

PredElse ==
    /\ GenHeadNode("pred", "else")
    /\ GenStep(<<Comment("else")>>, <<WNode("scope", Head(gen_work).node.scope)>>, m_stack_size)
    /\ UNCHANGED <<m_vars, m_scopes, m_label_count>>


(***************************************************************************)
(* The target machine (x86-64, as the emitted lines are assembled).  A     *)
(* word is an integer of magnitude below Wide, standing for itself mod     *)
(* 2^64, or the value Wide, standing for some word that is not within      *)
(* Wide of 0 or of 2^64.  mem is the stack area, slot 1 being the first    *)
(* slot pushed; sp is the number of slots pushed and not yet popped;       *)
(* memory below the stack pointer keeps what was last stored there.        *)
(***************************************************************************)
Exact(v) == v > 0 - Wide /\ v < Wide

Regs(rax, rbx, rdx, rdi) == [rax |-> rax, rbx |-> rbx, rdx |-> rdx, rdi |-> rdi]

Status(kind, code) == [kind |-> kind, code |-> code]

Running == Status("running", 0)

DigitVal(c) ==
    CASE c = "0" -> 0 [] c = "1" -> 1 [] c = "2" -> 2 [] c = "3" -> 3 [] c = "4" -> 4
      [] c = "5" -> 5 [] c = "6" -> 6 [] c = "7" -> 7 [] c = "8" -> 8 [] c = "9" -> 9

\* The number the assembler reads from the decimal text of an immediate.
RECURSIVE DecVal(_)
DecVal(txt) ==
    IF txt = <<>> THEN 0
    ELSE DecVal(SubSeq(txt, 1, Len(txt) - 1)) * 10 + DigitVal(txt[Len(txt)])

\* 2^64 mod d, by six squarings of 2
RECURSIVE Pow2Pow(_, _)
Pow2Pow(k, d) == IF k = 0 THEN 2 % d ELSE (Pow2Pow(k - 1, d) * Pow2Pow(k - 1, d)) % d

Pow64Mod(d) == Pow2Pow(6, d)

\* mul rbx: rdx:rax := rax * rbx (unsigned).  hi is rdx, lo is rax.
MulWords(a, b) ==
    IF a = Wide \/ b = Wide \/ ~Exact(a * b) THEN [st |-> "unmodelled", hi |-> 0, lo |-> 0]
    ELSE [st |-> "ok",
          lo |-> a * b,
          hi |-> IF a = 0 \/ b = 0 THEN 0
                 ELSE IF a > 0 /\ b > 0 THEN 0
                 ELSE IF a < 0 /\ b > 0 THEN b - 1
                 ELSE IF a > 0 /\ b < 0 THEN a - 1
                 ELSE a + b]

\* div rbx: rax := rdx:rax / rbx, rdx := rdx:rax % rbx (unsigned); #DE when
\* rbx = 0 or the quotient does not fit in 64 bits.  hi is rdx, lo is rax,
\* d is rbx.
QuotientIgnoringRdx(hi, lo, d) ==
    IF d = 0 THEN [st |-> "fault", q |-> 0, r |-> 0]
    ELSE IF lo = Wide \/ d = Wide \/ lo < 0 \/ d < 0 THEN [st |-> "unmodelled", q |-> 0, r |-> 0]
    ELSE [st |-> "ok", q |-> lo \div d, r |-> lo % d]

DivWords(hi, lo, d) ==
    IF d = 0 THEN [st |-> "fault", q |-> 0, r |-> 0]
    ELSE IF hi = Wide \/ lo = Wide \/ d = Wide THEN [st |-> "unmodelled", q |-> 0, r |-> 0]
    ELSE IF hi = 0 THEN
        IF lo >= 0 /\ d > 0 THEN [st |-> "ok", q |-> lo \div d, r |-> lo % d]
        ELSE IF lo >= 0 THEN [st |-> "ok", q |-> 0, r |-> lo]
        ELSE IF d = 1 THEN [st |-> "ok", q |-> lo, r |-> 0]
        ELSE IF d > 1 THEN [st |-> "ok", q |-> Wide, r |-> (Pow64Mod(d) + (lo % d)) % d]
        ELSE IF lo >= d THEN [st |-> "ok", q |-> 1, r |-> lo - d]
        ELSE [st |-> "ok", q |-> 0, r |-> lo]
    ELSE IF d > 0 THEN
        IF hi < 0 \/ hi >= d THEN [st |-> "fault", q |-> 0, r |-> 0]
        ELSE IF lo >= 0
        THEN [st |-> "ok", q |-> Wide, r |-> ((hi % d) * Pow64Mod(d) + (lo % d)) % d]
        ELSE [st |-> "ok",
              q |-> IF hi + 1 = d THEN 0 - ((d - 1 - lo) \div d) ELSE Wide,
              r |-> ((hi % d) * Pow64Mod(d) + Pow64Mod(d) + (lo % d)) % d]
    ELSE [st |-> "unmodelled", q |-> 0, r |-> 0]

\* The positions of the definition of label<l> in the text.
LabelAt(l) == {k \in 1..Len(m_output) : m_output[k] = Label(l)}

CpuAt(op) == stage = "run" /\ status.kind = "running" /\ ip <= Len(m_output) /\ m_output[ip].op = op

Halt(kind, code) ==
    /\ stage' = "halted"
    /\ status' = Status(kind, code)
    /\ UNCHANGED <<arenaVars, lexVars, prog, diag, genVars, ip, sp, mem, regs, zf>>

\* An instruction that completes: the next instruction, stack and registers.
Cpu(next_ip, next_sp, next_mem, next_regs, next_zf) ==
    /\ ip' = next_ip
    /\ sp' = next_sp
    /\ mem' = next_mem
    /\ regs' = next_regs
    /\ zf' = next_zf
    /\ UNCHANGED <<arenaVars, lexVars, prog, diag, stage, genVars, status>>

\* The slot [rsp + off] addresses.
SlotAt(off) == sp - (off \div 8)

ExecDirective ==
    /\ \E op \in {"global", "start", "comment", "label"} : CpuAt(op)
    /\ Cpu(ip + 1, sp, mem, regs, zf)

ExecMovImm ==
    /\ CpuAt("mov_imm")
    /\ Cpu(ip + 1, sp, mem, [regs EXCEPT ![m_output[ip].reg] = DecVal(m_output[ip].txt)], zf)

ExecPush ==
    /\ CpuAt("push")
    /\ IF sp >= MemSlots THEN Halt("unmodelled", 0)
       ELSE Cpu(ip + 1, sp + 1, [mem EXCEPT ![sp + 1] = regs[m_output[ip].reg]], regs, zf)

ExecPushMem ==
    /\ CpuAt("push_mem")
    /\ LET slot == SlotAt(m_output[ip].n) IN
       IF sp >= MemSlots \/ slot < 1 \/ slot > MemSlots THEN Halt("unmodelled", 0)
       ELSE Cpu(ip + 1, sp + 1, [mem EXCEPT ![sp + 1] = mem[slot]], regs, zf)

ExecPop ==
    /\ CpuAt("pop")
    /\ IF sp < 1 THEN Halt("unmodelled", 0)
       ELSE Cpu(ip + 1, sp - 1, mem, [regs EXCEPT ![m_output[ip].reg] = mem[sp]], zf)

ExecAdd ==
    /\ CpuAt("add")
    /\ LET v == regs.rax + regs.rbx IN
       IF regs.rax = Wide \/ regs.rbx = Wide \/ ~Exact(v) THEN Halt("unmodelled", 0)
       ELSE Cpu(ip + 1, sp, mem, [regs EXCEPT !.rax = v], v = 0)

ExecSub ==
    /\ CpuAt("sub")
    /\ LET v == regs.rax - regs.rbx IN
       IF regs.rax = Wide \/ regs.rbx = Wide \/ ~Exact(v) THEN Halt("unmodelled", 0)
       ELSE Cpu(ip + 1, sp, mem, [regs EXCEPT !.rax = v], v = 0)

ExecMul ==
    /\ CpuAt("mul")
    /\ LET m == MulWords(regs.rax, regs.rbx) IN
       IF m.st # "ok" THEN Halt(m.st, 0)
       ELSE Cpu(ip + 1, sp, mem, [regs EXCEPT !.rax = m.lo, !.rdx = m.hi], zf)

ExecDiv ==
    /\ CpuAt("div")
    /\ LET d == DivWords(regs.rdx, regs.rax, regs.rbx) IN
       IF d.st # "ok" THEN Halt(d.st, 0)
       ELSE Cpu(ip + 1, sp, mem, [regs EXCEPT !.rax = d.q, !.rdx = d.r], zf)

ExecTest ==
    /\ CpuAt("test")
    /\ Cpu(ip + 1, sp, mem, regs, regs.rax = 0)

\* jz / jmp: an operand that no line defines, or that two lines define, is
\* rejected when the text is assembled.
JumpTo(l) ==
    IF Cardinality(LabelAt(l)) = 1
    THEN Cpu(CHOOSE k \in LabelAt(l) : TRUE, sp, mem, regs, zf)
    ELSE Halt(IF LabelAt(l) = {} THEN "undefined_label" ELSE "duplicate_label", 0)

ExecJz ==
    /\ CpuAt("jz")
    /\ IF zf THEN JumpTo(m_output[ip].n) ELSE Cpu(ip + 1, sp, mem, regs, zf)

ExecJmp ==
    /\ CpuAt("jmp")
    /\ JumpTo(m_output[ip].n)

ExecAddRsp ==
    /\ CpuAt("add_rsp")
    /\ LET v == SlotAt(m_output[ip].n) IN
       IF v < 0 THEN Halt("unmodelled", 0)
       ELSE Cpu(ip + 1, v, mem, regs, FALSE)

ExecStore ==
    /\ CpuAt("store")
    /\ LET slot == SlotAt(m_output[ip].n) IN
       IF slot < 1 \/ slot > MemSlots THEN Halt("unmodelled", 0)
       ELSE Cpu(ip + 1, sp, [mem EXCEPT ![slot] = regs.rax], regs, zf)

\* syscall with rax = 60: exit(rdi)
ExecSyscall ==
    /\ CpuAt("syscall")
    /\ IF regs.rax = 60 THEN Halt("exited", regs.rdi) ELSE Halt("unmodelled", 0)


(***************************************************************************)
(* Programs compiled by the model, as word sequences.                      *)
(***************************************************************************)
DigitChar(n) ==
    CASE n = 0 -> "0" [] n = 1 -> "1" [] n = 2 -> "2" [] n = 3 -> "3" [] n = 4 -> "4"
      [] n = 5 -> "5" [] n = 6 -> "6" [] n = 7 -> "7" [] n = 8 -> "8" [] n = 9 -> "9"

RECURSIVE Digits(_)
Digits(n) == IF n < 10 THEN <<DigitChar(n)>> ELSE Append(Digits(n \div 10), DigitChar(n % 10))

Lit(n) == [type |-> "int_lit", value |-> Digits(n)]

X == WId("x")

OpToks == {"plus", "minus", "star", "fslash"}

ExitW(e) == <<W("exit"), W("open_paren")>> \o e \o <<W("close_paren"), W("semi")>>
LetW(id, e) == <<W("let"), id, W("eq")>> \o e \o <<W("semi")>>
AssignW(id, e) == <<id, W("eq")>> \o e \o <<W("semi")>>
ScopeW(body) == <<W("open_curly")>> \o body \o <<W("close_curly")>>
ParenW(e) == <<W("open_paren")>> \o e \o <<W("close_paren")>>
IfW(kw, c, body) == <<W(kw)>> \o ParenW(c) \o ScopeW(body)

\* The text of a word, and a word sequence written with a blank between two
\* words that would otherwise read as one, or a newline in front of the
\* words whose positions are in breaks.
TypeText(type) ==
    CASE type = "exit" -> <<"e", "x", "i", "t">>
      [] type = "let" -> <<"l", "e", "t">>
      [] type = "if_" -> <<"i", "f">>
      [] type = "elif_" -> <<"e", "l", "i", "f">>
      [] type = "else_" -> <<"e", "l", "s", "e">>
      [] type = "semi" -> <<";">>
      [] type = "open_paren" -> <<"(">>
      [] type = "close_paren" -> <<")">>
      [] type = "eq" -> <<"=">>
      [] type = "plus" -> <<"+">>
      [] type = "star" -> <<"*">>
      [] type = "minus" -> <<"-">>
      [] type = "fslash" -> <<"/">>
      [] type = "open_curly" -> <<"{">>
      [] type = "close_curly" -> <<"}">>

WordText(w) == IF w.type \in {"ident", "int_lit"} THEN w.value ELSE TypeText(w.type)

\* Two words that written side by side would read as one lexeme or as the
\* start of a comment
Glued(w1, w2) ==
    \/ WordText(w1)[1] \in Alpha /\ WordText(w2)[1] \in Alnum
    \/ WordText(w1)[1] \in Digit /\ WordText(w2)[1] \in Digit
    \/ w1 = W("fslash") /\ w2 \in {W("fslash"), W("star")}

RECURSIVE RenderFrom(_, _, _)
RenderFrom(words, breaks, k) ==
    IF k > Len(words) THEN <<>>
    ELSE (IF k \in breaks THEN <<NL>>
          ELSE IF k > 1 /\ Glued(words[k - 1], words[k]) THEN <<" ">> ELSE <<>>)
            \o WordText(words[k]) \o RenderFrom(words, breaks, k + 1)

Render(words, breaks) == RenderFrom(words, breaks, 1)

\* exit(a op1 b op2 c);
ExprPrograms ==
    {ExitW(<<Lit(a), W(o1), Lit(b), W(o2), Lit(c)>>) :
        a \in 1..MaxLit, b \in 1..MaxLit, c \in 1..MaxLit, o1 \in OpToks, o2 \in OpToks}

\* exit(t1 op1 t2 op2 t3 op3 t4); and the parenthesised three-term forms
ChainTerms == {<<8, 3, 2, 1>>, <<7, 2, 3, 2>>}

ChainPrograms ==
    {ExitW(<<Lit(t[1]), W(o1), Lit(t[2]), W(o2), Lit(t[3]), W(o3), Lit(t[4])>>) :
        t \in ChainTerms, o1 \in OpToks, o2 \in OpToks, o3 \in OpToks}
    \cup {ExitW(ParenW(<<Lit(t[1]), W(o1), Lit(t[2])>>) \o <<W(o2), Lit(t[3])>>) :
        t \in ChainTerms, o1 \in OpToks, o2 \in OpToks}
    \cup {ExitW(<<Lit(t[1]), W(o1)>> \o ParenW(<<Lit(t[2]), W(o2), Lit(t[3])>>)) :
        t \in ChainTerms, o1 \in OpToks, o2 \in OpToks}

\* Statements on one variable, placed before, inside and after nested scopes:
\* pre {^d inner }^j post }^(d-j)
Simple == {LetW(X, <<Lit(1)>>), LetW(X, <<Lit(2)>>), AssignW(X, <<Lit(3)>>), ExitW(<<X>>)}

ScopeProgram(pre, inner, post, d, j) ==
    Flatten(pre) \o Repeat(<<W("open_curly")>>, d) \o Flatten(inner)
        \o Repeat(<<W("close_curly")>>, j) \o Flatten(post) \o Repeat(<<W("close_curly")>>, d - j)

ScopePrograms ==
    UNION {{ScopeProgram(pre, inner, post, d, j) :
                pre \in SeqsUpTo(Simple, 1), inner \in SeqsUpTo(Simple, 2),
                post \in SeqsUpTo(Simple, 1), j \in 0..d} :
           d \in 0..MaxDepth}

\* A let whose initialiser reads the name it binds, alone or followed by
\* exit(x);
SelfInitW == {LetW(X, <<X>>), LetW(X, <<X, W("plus"), Lit(1)>>)}

SelfInitPrograms == SelfInitW \cup {w \o ExitW(<<X>>) : w \in SelfInitW}

\* if chains: branch k of kind "exit" is { exit(k); }, of kind "acc" is
\* { x = x + 2^(k-1); } and the chain is followed by exit(9); resp. exit(x);
Conds == {<<Lit(0)>>, <<Lit(1)>>, <<Lit(2), W("minus"), Lit(2)>>, <<Lit(1), W("fslash"), Lit(0)>>}

RECURSIVE Pow2(_)
Pow2(n) == IF n = 0 THEN 1 ELSE 2 * Pow2(n - 1)

Branch(kind, k) ==
    IF kind = "exit" THEN ExitW(<<Lit(k)>>)
    ELSE AssignW(X, <<X, W("plus"), Lit(Pow2(k - 1))>>)

RECURSIVE ElifsW(_, _, _)
ElifsW(kind, conds, k) ==
    IF k > Len(conds) THEN <<>>
    ELSE IfW("elif_", conds[k], Branch(kind, k)) \o ElifsW(kind, conds, k + 1)

IfChainW(kind, conds, else) ==
    IfW("if_", conds[1], Branch(kind, 1)) \o ElifsW(kind, conds, 2)
        \o (IF else THEN <<W("else_")>> \o ScopeW(Branch(kind, Len(conds) + 1)) ELSE <<>>)

IfProgramW(kind, conds, else) ==
    IF kind = "exit" THEN IfChainW(kind, conds, else) \o ExitW(<<Lit(9)>>)
    ELSE LetW(X, <<Lit(0)>>) \o IfChainW(kind, conds, else) \o ExitW(<<X>>)

\* The chains of the model: exiting branches under literal conditions,
\* accumulating branches under all conditions
PlainConds == {<<Lit(0)>>, <<Lit(1)>>}

CondsOf(kind) == IF kind = "exit" THEN PlainConds ELSE Conds

IfChains ==
    UNION {{[kind |-> kind, conds |-> conds] :
                conds \in UNION {[1..n -> CondsOf(kind)] : n \in 1..(MaxElif + 1)}} :
           kind \in {"exit", "acc"}}

IfPrograms == {IfProgramW(c.kind, c.conds, else) : c \in IfChains, else \in BOOLEAN}

\* Programs with a syntax error: a program with one word removed (d = 0:
\* none), laid out with at most MaxBreaks newlines.
BaseWords ==
    { ExitW(<<Lit(1), W("plus"), Lit(2)>>),
      ExitW(<<Lit(1)>>),
      LetW(X, ParenW(<<Lit(1)>>)),
      AssignW(X, <<Lit(1), W("star"), Lit(2)>>),
      ScopeW(LetW(X, <<Lit(1)>>)),
      IfW("if_", <<Lit(1)>>, ExitW(<<Lit(1)>>)) \o IfW("elif_", <<Lit(0)>>, <<>>)
          \o <<W("else_")>> \o ScopeW(<<>>),
      IfW("if_", <<Lit(1)>>, ExitW(<<Lit(1)>>)),
      IfW("if_", <<Lit(1)>>, <<>>) \o IfW("elif_", <<Lit(0)>>, LetW(X, <<Lit(1)>>)) }

\* The sets of at most m positions of 2..n
RECURSIVE BreakSets(_, _)
BreakSets(n, m) ==
    IF m = 0 THEN {{}}
    ELSE BreakSets(n, m - 1) \cup {bs \cup {k} : bs \in BreakSets(n, m - 1), k \in 2..n}

BrokenPrograms ==
    UNION {{Render(IF d = 0 THEN b ELSE Remove(b, d), breaks) :
                breaks \in BreakSets(Len(b), MaxBreaks), d \in 0..Len(b)} :
           b \in BaseWords}

\* Texts for the tokenizer: every kind of lexeme alone, and sequences of
\* lexemes joined by nothing, a blank, or a tab and a newline.  Nothing joins
\* two lexemes only where they stay two lexemes: not a letter-led run in
\* front of a letter or digit, a digit run in front of a digit, or / in
\* front of / or *.
Ident(chars) == [type |-> "ident", value |-> chars]

Keywords == {W("exit"), W("let"), W("if_"), W("elif_"), W("else_")}

LexWords ==
    Keywords
    \cup {W(SymbolType(c)) : c \in Symbols}
    \cup {X, Ident(<<"e", "x">>), Ident(<<"x", "1">>), Ident(<<"e", "x", "i", "t", "s">>),
          Ident(<<"l", "e", "t", "1">>), Ident(<<"i", "f", "f">>), Lit(5), Lit(12), Lit(0)}

SeqWords ==
    {W("let"), Ident(<<"e", "x">>), Ident(<<"x", "1">>), Lit(5), Lit(12),
     W("fslash"), W("star"), W("open_paren"), W("else_")}

Seps == {<<>>, <<" ">>, <<"\t", NL>>}

RECURSIVE JoinFrom(_, _, _)
JoinFrom(words, seps, k) ==
    IF k > Len(words) THEN <<>>
    ELSE (IF k > 1 THEN seps[k - 1] ELSE <<>>) \o WordText(words[k]) \o JoinFrom(words, seps, k + 1)

Join(words, seps) == JoinFrom(words, seps, 1)

LexCase(words, seps) == [src |-> Join(words, seps), words |-> words]

\* let x = 5;
LetExample ==
    [src |-> <<"l", "e", "t", " ", "x", " ", "=", " ", "5", ";">>, words |-> LetW(X, <<Lit(5)>>)]

SepsFor(words) ==
    {seps \in [1..(Len(words) - 1) -> Seps] :
        \A k \in 1..(Len(words) - 1) : Glued(words[k], words[k + 1]) => seps[k] # <<>>}

LexCases ==
    {LexCase(<<w>>, <<>>) : w \in LexWords}
    \cup UNION {UNION {{LexCase(ws, seps) : seps \in SepsFor(ws)} : ws \in [1..n -> SeqWords]} :
                    n \in 2..MaxLexemes}
    \cup {LetExample}

LexSources == {c.src : c \in LexCases}

\* Texts with comments: pieces of text, each with at most one token in front
\* of its nls newlines, followed by the identifier x.
Piece(text, tok, nls) == [text |-> text, tok |-> tok, nls |-> nls]

Pieces ==
    { Piece(<<"x", NL>>, TRUE, 1),
      Piece(<<NL>>, FALSE, 1),
      Piece(<<"/", "/", " ", "c", NL>>, FALSE, 1),
      Piece(<<"x", " ", "/", "/", NL>>, TRUE, 1),
      Piece(<<"/", "*", " ", "c", " ", "*", "/">>, FALSE, 0),
      Piece(<<"/", "*", NL, "c", NL, "*", "/", NL>>, FALSE, 3),
      Piece(<<"x", "/", "*", "/", "/", NL, "*", "/">>, TRUE, 1) }

RECURSIVE PiecesText(_, _), PiecesLines(_, _, _)
PiecesText(ps, k) == IF k > Len(ps) THEN <<"x">> ELSE ps[k].text \o PiecesText(ps, k + 1)

\* 1 + the number of newlines in front of each token
PiecesLines(ps, k, line) ==
    IF k > Len(ps) THEN <<line>>
    ELSE (IF ps[k].tok THEN <<line>> ELSE <<>>) \o PiecesLines(ps, k + 1, line + ps[k].nls)

CommentCase(ps) == [src |-> PiecesText(ps, 1), lines |-> PiecesLines(ps, 1, 1)]

CommentCases == {CommentCase(ps) : ps \in UNION {[1..n -> Pieces] : n \in 1..MaxPieces}}

CommentSources == {c.src : c \in CommentCases}

\* Programs without an exit statement
NoExitPrograms ==
    { <<>>,
      LetW(X, <<Lit(1)>>) \o AssignW(X, <<X, W("plus"), Lit(2)>>),
      LetW(X, <<Lit(3), W("fslash"), Lit(2), W("fslash"), Lit(1)>>),
      ScopeW(<<>>),
      IfW("if_", <<Lit(0)>>, <<>>) \o <<W("else_")>> \o ScopeW(LetW(X, <<Lit(1)>>)),
      IfW("if_", <<Lit(0)>>, <<>>) \o IfW("elif_", <<Lit(0)>>, <<>>),
      IfW("if_", <<Lit(0)>>, <<>>) \o IfW("elif_", <<Lit(1)>>, LetW(X, <<Lit(1)>>)) }

\* Scopes that declare variables while variables of the enclosing scopes are
\* live: bare scopes, nested scopes, and the bodies of if, elif and else
T == WId("t")

A == WId("a")

NestedPrograms ==
    { LetW(X, <<Lit(1)>>) \o ScopeW(LetW(T, <<Lit(2)>>)) \o ExitW(<<X>>),
      ScopeW(LetW(X, <<Lit(1)>>) \o ScopeW(<<>>) \o LetW(T, <<Lit(2)>>)) \o ExitW(<<Lit(3)>>),
      LetW(X, <<Lit(1)>>)
          \o ScopeW(LetW(T, <<Lit(2)>>) \o ScopeW(LetW(A, <<Lit(3)>>) \o AssignW(X, <<A>>))
                    \o AssignW(T, <<X>>))
          \o ExitW(<<X>>),
      LetW(X, <<Lit(0)>>)
          \o IfW("if_", <<X>>, LetW(T, <<Lit(1)>>))
          \o IfW("elif_", <<Lit(0)>>, LetW(T, <<Lit(2)>>) \o LetW(A, <<Lit(3)>>))
          \o <<W("else_")>> \o ScopeW(LetW(T, <<Lit(3)>>) \o AssignW(X, <<T>>))
          \o ExitW(<<X>>),
      LetW(X, <<Lit(1)>>)
          \o IfW("if_", <<X>>, LetW(T, <<Lit(2)>>) \o ScopeW(LetW(A, <<Lit(3)>>)) \o ExitW(<<T>>)) }

\* Texts made of up to MaxParts parts, each a statement that is fine ("ok"),
\* one that reads an undeclared variable ("sem"), one with its ")" missing
\* ("syn"), or a character no branch of the tokenizer accepts ("lex")
PartKinds == {"ok", "sem", "syn", "lex"}

PartText(kind) ==
    IF kind = "lex" THEN <<"@">>
    ELSE IF kind = "syn" THEN Render(Remove(ExitW(<<Lit(1)>>), 4), {})
    ELSE IF kind = "sem" THEN Render(ExitW(<<X>>), {})
    ELSE Render(ExitW(<<Lit(2)>>), {})

RECURSIVE StagedFrom(_, _)
StagedFrom(parts, k) ==
    IF k > Len(parts) THEN <<>>
    ELSE (IF k = 1 THEN <<>> ELSE <<" ">>) \o PartText(parts[k]) \o StagedFrom(parts, k + 1)

StagedCase(parts) == [src |-> StagedFrom(parts, 1), parts |-> parts]

StagedCases == {StagedCase(parts) : parts \in UNION {[1..n -> PartKinds] : n \in 1..MaxParts}}

StagedSources == {c.src : c \in StagedCases}

\* let x = 1; let t = 2; v = E; exit(r);  -- an assignment to the lower or
\* to the upper of two variables, then a read of one of them
AssignExprs == {<<Lit(3)>>, <<T, W("plus"), X>>, <<X, W("star"), Lit(3), W("minus"), T>>}

AssignProgram(v, e, r) == LetW(X, <<Lit(1)>>) \o LetW(T, <<Lit(2)>>) \o AssignW(v, e) \o ExitW(<<r>>)

AssignPrograms == {AssignProgram(v, e, r) : v \in {X, T}, e \in AssignExprs, r \in {X, T}}

Sources ==
    {Render(w, {}) : w \in ExprPrograms \cup ChainPrograms \cup ScopePrograms
                              \cup SelfInitPrograms \cup IfPrograms \cup NoExitPrograms
                              \cup NestedPrograms \cup AssignPrograms}
    \cup BrokenPrograms
    \cup LexSources
    \cup CommentSources
    \cup StagedSources

(***************************************************************************)
(* The compilation: Parser::parse_prog, then the generator, then the run   *)
(* of the generated program.                                               *)
(***************************************************************************)
\* Nothing lexed, parsed, generated or run yet
Fresh ==
    /\ tokens = <<>>
    /\ prog = NoNode
    /\ diag = NoDiag
    /\ gen_work = <<>>
    /\ m_output = <<>>
    /\ m_stack_size = 0
    /\ m_vars = <<>>
    /\ m_scopes = <<>>
    /\ m_label_count = 0
    /\ ip = 1
    /\ sp = 0
    /\ mem = [k \in 1..MemSlots |-> 0]
    /\ regs = Regs(0, 0, 0, 0)
    /\ zf = FALSE
    /\ status = Running

Init ==
    /\ IdleArena
    /\ m_src \in Sources
    /\ stage = "source"
    /\ Fresh

\* Tokenizer::tokenize on the whole text; the vector it returns is the one
\* the Parser is constructed with.
Tokenize ==
    /\ stage = "source"
    /\ LET r == tokenize(m_src) IN
        /\ stage' = IF r.st = "ok" THEN "start" ELSE "lex_error"
        /\ tokens' = r.tokens
        /\ diag' = IF r.st = "ok" THEN diag ELSE Diag("lexical", "Invalid token encountered!", NoLine, 0)
    /\ UNCHANGED <<arenaVars, m_src, prog, genVars, cpuVars>>

\* Parser::parse_prog on the whole token vector.  engaged is what the read
\* of the uninitialised std::optional flag of a NodeStmtAssign yields.
Parse ==
    /\ stage = "start"
    /\ \E engaged \in BOOLEAN :
        LET r == parse_prog(tokens, engaged) IN
        /\ stage' = IF r.st = "ok" THEN "parsed" ELSE "parse_error"
        /\ prog' = r.node
        /\ diag' = r.diag
    /\ UNCHANGED <<arenaVars, lexVars, genVars, cpuVars>>

Next ==
    \/ Tokenize
    \/ Parse
    \/ generate_program
    \/ generate_epilogue
    \/ TermIntLit
    \/ TermIdent
    \/ TermParen
    \/ generate_binary_expression
    \/ BinExprRest
    \/ generate_scope
    \/ end_scope
    \/ StmtExit
    \/ StmtExitRest
    \/ StmtLet
    \/ StmtLetRest
    \/ StmtAssign
    \/ StmtAssignRest
    \/ StmtScope
    \/ StmtScopeRest
    \/ StmtIf
    \/ StmtIfCond
    \/ StmtIfScopeDone
    \/ StmtIfEnd
    \/ PredElif
    \/ PredElifCond
    \/ PredElifScopeDone
    \/ PredElse
    \/ ExecDirective
    \/ ExecMovImm
    \/ ExecPush
    \/ ExecPushMem
    \/ ExecPop
    \/ ExecAdd
    \/ ExecSub
    \/ ExecMul
    \/ ExecDiv
    \/ ExecTest
    \/ ExecJz
    \/ ExecJmp
    \/ ExecAddRsp
    \/ ExecStore
    \/ ExecSyscall

Spec == Init /\ [][Next]_vars

\* The arena alone: a sequence of requests to an arena of a small capacity.
ArenaInit ==
    /\ InitArena
    /\ m_src = <<>>
    /\ stage = "arena"
    /\ Fresh

ArenaNext == alloc

SpecArena == ArenaInit /\ [][ArenaNext]_vars


(***************************************************************************)
(* The meaning of a program (spec sections 3, 4.4 and 6), against which    *)
(* the compiled program is compared: integer arithmetic with truncating    *)
(* division, lexical scopes with shadowing, if / elif / else, exit.        *)
(* An environment is the sequence of the visible bindings, innermost       *)
(* last.  A division by zero has no value.                                 *)
(***************************************************************************)
Val(v) == [def |-> TRUE, v |-> v]
NoVal == [def |-> FALSE, v |-> 0]

Abs(n) == IF n < 0 THEN 0 - n ELSE n

TruncDiv(a, b) == IF (a < 0) = (b < 0) THEN Abs(a) \div Abs(b) ELSE 0 - (Abs(a) \div Abs(b))

RefBin(op, l, r) ==
    IF ~l.def \/ ~r.def THEN NoVal
    ELSE CASE op = "add" -> Val(l.v + r.v)
           [] op = "sub" -> Val(l.v - r.v)
           [] op = "multi" -> Val(l.v * r.v)
           [] op = "div" -> IF r.v = 0 THEN NoVal ELSE Val(TruncDiv(l.v, r.v))

Binding(name, v) == [name |-> name, v |-> v]

\* The innermost binding of name in env (0: none)
Innermost(env, name) ==
    IF \E k \in 1..Len(env) : env[k].name = name
    THEN CHOOSE k \in 1..Len(env) :
            env[k].name = name /\ \A j \in (k + 1)..Len(env) : env[j].name # name
    ELSE 0

RECURSIVE RefEval(_, _)
RefEval(e, env) ==
    CASE e.t = "int_lit" -> Val(DecVal(e.tok.value))
      [] e.t = "ident" ->
            IF Innermost(env, e.tok.value) = 0 THEN NoVal
            ELSE Val(env[Innermost(env, e.tok.value)].v)
      [] e.t = "paren" -> RefEval(e.expr, env)
      [] e.t \in BinOps -> RefBin(e.t, RefEval(e.lhs, env), RefEval(e.rhs, env))

\* The state of a run: kind is "run", "exit" (with its status) or "undef"
\* (the program has no meaning).
RefState(kind, env, code) == [kind |-> kind, env |-> env, code |-> code]

RefLet(r, name, v) ==
    IF ~v.def THEN RefState("undef", r.env, 0)
    ELSE RefState("run", Append(r.env, Binding(name, v.v)), 0)

RefAssign(r, name, v) ==
    IF ~v.def \/ Innermost(r.env, name) = 0 THEN RefState("undef", r.env, 0)
    ELSE RefState("run", [r.env EXCEPT ![Innermost(r.env, name)].v = v.v], 0)

RefExit(r, v) == IF ~v.def THEN RefState("undef", r.env, 0) ELSE RefState("exit", r.env, v.v)

\* Leaving a scope drops the bindings made in it.
RefLeave(r, inner) ==
    IF inner.kind = "run" THEN RefState("run", SubSeq(inner.env, 1, Len(r.env)), 0) ELSE inner

RECURSIVE RefStmts(_, _, _), RefStmt(_, _), RefIf(_, _, _)

RefStmts(stmts, k, r) ==
    IF k > Len(stmts) \/ r.kind # "run" THEN r
    ELSE RefStmts(stmts, k + 1, RefStmt(stmts[k], r))

\* node is an if statement or an elif predicate, c the value of its condition
RefIf(node, r, c) ==
    IF ~c.def THEN RefState("undef", r.env, 0)
    ELSE IF c.v # 0 THEN RefLeave(r, RefStmts(node.scope.stmts, 1, r))
    ELSE IF node.pred.t = "elif" THEN RefIf(node.pred, r, RefEval(node.pred.expr, r.env))
    ELSE IF node.pred.t = "else" THEN RefLeave(r, RefStmts(node.pred.scope.stmts, 1, r))
    ELSE r

RefStmt(stmt, r) ==
    CASE stmt.t = "exit" -> RefExit(r, RefEval(stmt.expr, r.env))
      [] stmt.t = "let" -> RefLet(r, stmt.ident.value, RefEval(stmt.expr, r.env))
      [] stmt.t = "assign" -> RefAssign(r, stmt.ident.value, RefEval(stmt.expr, r.env))
      [] stmt.t = "scope" -> RefLeave(r, RefStmts(stmt.stmts, 1, r))
      [] stmt.t = "if" -> RefIf(stmt, r, RefEval(stmt.expr, r.env))

\* The outcome of program p: "exit" with a status, "run" (the end was
\* reached: status 0) or "undef".
RefOutcome(p) == RefStmts(p.stmts, 1, RefState("run", <<>>, 0))

\* Static validity: every identifier read or assigned is bound in the current
\* or an enclosing scope, and no let re-binds a name of its own scope.  names
\* are the visible names, innermost last, and from is the number of names
\* that belong to enclosing scopes.
Names(ok, names) == [ok |-> ok, names |-> names]

RECURSIVE ExprNames(_)
ExprNames(e) ==
    CASE e.t = "int_lit" -> {}
      [] e.t = "ident" -> {e.tok.value}
      [] e.t = "paren" -> ExprNames(e.expr)
      [] e.t \in BinOps -> ExprNames(e.lhs) \cup ExprNames(e.rhs)

Bound(names, e) == \A n \in ExprNames(e) : \E k \in 1..Len(names) : names[k] = n

RECURSIVE ValidStmts(_, _, _, _), ValidStmt(_, _, _), ValidPred(_, _)

ValidScope(scope, names) == ValidStmts(scope.stmts, 1, Names(TRUE, names), Len(names)).ok

ValidPred(pred, names) ==
    CASE pred.t = "none" -> TRUE
      [] pred.t = "else" -> ValidScope(pred.scope, names)
      [] pred.t = "elif" ->
            Bound(names, pred.expr) /\ ValidScope(pred.scope, names) /\ ValidPred(pred.pred, names)

ValidStmt(stmt, names, from) ==
    CASE stmt.t = "exit" -> Names(Bound(names, stmt.expr), names)
      [] stmt.t = "let" ->
            Names(Bound(names, stmt.expr)
                    /\ \A k \in (from + 1)..Len(names) : names[k] # stmt.ident.value,
                  Append(names, stmt.ident.value))
      [] stmt.t = "assign" ->
            Names(Bound(names, stmt.expr) /\ \E k \in 1..Len(names) : names[k] = stmt.ident.value,
                  names)
      [] stmt.t = "scope" -> Names(ValidScope(stmt, names), names)
      [] stmt.t = "if" ->
            Names(Bound(names, stmt.expr) /\ ValidScope(stmt.scope, names)
                    /\ ValidPred(stmt.pred, names),
                  names)

ValidStmts(stmts, k, r, from) ==
    IF k > Len(stmts) \/ ~r.ok THEN r
    ELSE ValidStmts(stmts, k + 1, ValidStmt(stmts[k], r.names, from), from)

RefValid(p) == ValidStmts(p.stmts, 1, Names(TRUE, <<>>), 0).ok

(***************************************************************************)
(* Claims                                                                  *)
(***************************************************************************)
Words(toks) == [k \in 1..Len(toks) |-> [type |-> toks[k].type, value |-> toks[k].value]]

Parsed == stage \in {"parsed", "gen", "gen_error", "run", "halted"}

Exited(code) == stage = "halted" /\ status = Status("exited", code)

IsTermTok(tok) == tok.type \in {"int_lit", "ident"}

TermOf(tok) == IF tok.type = "int_lit" THEN NodeTermIntLit(tok) ELSE NodeTermIdent(tok)

Additive == {"plus", "minus"}
Multiplicative == {"star", "fslash"}

\* tokens is exit ( t1 o1 t2 ... tn ) ; with n terms
IsExitChain(toks, n) ==
    /\ Len(toks) = 2 * n + 3
    /\ toks[1].type = "exit" /\ toks[2].type = "open_paren"
    /\ toks[2 * n + 2].type = "close_paren" /\ toks[2 * n + 3].type = "semi"
    /\ \A k \in 1..n : IsTermTok(toks[2 * k + 1])
    /\ \A k \in 1..(n - 1) : toks[2 * k + 2].type \in OpToks

ChainTerm(toks, k) == toks[2 * k + 1]
ChainOp(toks, k) == toks[2 * k + 2].type

\* C1: for a op1 b op2 c with op1 additive and op2 multiplicative the parser
\* builds op1(a, op2(b, c)); exit(1+2*3); compiles to code that exits with 7.
C1_Precedence ==
    /\ (Parsed /\ IsExitChain(tokens, 3)
            /\ ChainOp(tokens, 1) \in Additive /\ ChainOp(tokens, 2) \in Multiplicative)
        => prog = NodeProg(<<NodeStmtExit(
                    NodeBinExpr(BinOpOf(ChainOp(tokens, 1)),
                                TermOf(ChainTerm(tokens, 1)),
                                NodeBinExpr(BinOpOf(ChainOp(tokens, 2)),
                                            TermOf(ChainTerm(tokens, 2)),
                                            TermOf(ChainTerm(tokens, 3)))))>>)
    /\ (stage = "halted"
            /\ Words(tokens) = ExitW(<<Lit(1), W("plus"), Lit(2), W("star"), Lit(3)>>))
        => status = Status("exited", 7)

C1_Witness ==
    /\ Exited(7)
    /\ Words(tokens) = ExitW(<<Lit(1), W("plus"), Lit(2), W("star"), Lit(3)>>)
    /\ prog.stmts[1].expr.t = "add"
    /\ prog.stmts[1].expr.rhs.t = "multi"

\* The left-nested tree of the first n terms of an exit chain.
RECURSIVE LeftNest(_, _)
LeftNest(toks, n) ==
    IF n = 1 THEN TermOf(ChainTerm(toks, 1))
    ELSE NodeBinExpr(BinOpOf(ChainOp(toks, n - 1)), LeftNest(toks, n - 1), TermOf(ChainTerm(toks, n)))

SamePrecedence(toks, n) ==
    \/ \A k \in 1..(n - 1) : ChainOp(toks, k) \in Additive
    \/ \A k \in 1..(n - 1) : ChainOp(toks, k) \in Multiplicative

\* C2: a chain t1 op t2 op' t3 ... of operators of equal precedence parses to
\* the left-nested tree ((t1 op t2) op' t3) ...; 8-3-2-1 compiles to code that
\* exits with ((8-3)-2)-1 = 2.
C2_LeftAssociative ==
    /\ \A n \in 2..4 :
        (Parsed /\ IsExitChain(tokens, n) /\ SamePrecedence(tokens, n))
            => prog = NodeProg(<<NodeStmtExit(LeftNest(tokens, n))>>)
    /\ (stage = "halted"
            /\ Words(tokens) = ExitW(<<Lit(8), W("minus"), Lit(3), W("minus"), Lit(2),
                                       W("minus"), Lit(1)>>))
        => status = Status("exited", 2)

C2_Witness ==
    /\ Exited(2)
    /\ Words(tokens) = ExitW(<<Lit(8), W("minus"), Lit(3), W("minus"), Lit(2), W("minus"), Lit(1)>>)
    /\ prog = NodeProg(<<NodeStmtExit(LeftNest(tokens, 4))>>)
    /\ prog.stmts[1].expr.lhs.lhs.t = "sub"

\* C3: for a valid program whose run reaches an exit statement, the generated
\* program halts with exactly the value of that statement's expression in
\* standard integer arithmetic.
C3_RoundTrip ==
    (stage = "halted" /\ status.kind # "unmodelled"
            /\ RefValid(prog) /\ RefOutcome(prog).kind = "exit")
        => status = Status("exited", RefOutcome(prog).code)

\* The first slot of m_vars that belongs to the innermost open scope.
ScopeStart == IF m_scopes = <<>> THEN 0 ELSE m_scopes[Len(m_scopes)]

InOpenScope(name) == \E k \in (ScopeStart + 1)..Len(m_vars) : m_vars[k].name = name

InScopeChain(name) == \E k \in 1..Len(m_vars) : m_vars[k].name = name

ShadowW ==
    LetW(X, <<Lit(1)>>) \o ScopeW(LetW(X, <<Lit(2)>>) \o ExitW(<<X>>))

\* C4: a let is diagnosed as a duplicate only when its name is bound in the
\* innermost open scope, and let x = 1; { let x = 2; exit(x); } is accepted
\* and its code exits with 2.
C4_Shadowing ==
    /\ (stage = "gen_error" /\ diag.msg = "Identifier already used")
        => InOpenScope(Head(gen_work).node.ident.value)
    /\ Words(tokens) = ShadowW
        => /\ stage # "gen_error"
           /\ stage = "halted" => status = Status("exited", 2)

\* C5: a let whose name is bound in the innermost open scope stops the
\* generator with the error Identifier already used, and once the generator
\* has stopped no text is returned: the compilation never reaches the run.
C5_DuplicateLet ==
    [][/\ (GenHeadNode("stmt", "let") /\ InOpenScope(Head(gen_work).node.ident.value))
            => (stage' = "gen_error" /\ diag' = SemanticError("Identifier already used"))
       /\ stage = "gen_error" => stage' = "gen_error"]_vars

C5_Witness ==
    /\ stage = "gen_error"
    /\ diag.msg = "Identifier already used"
    /\ Head(gen_work).node.t = "let"
    /\ InOpenScope(Head(gen_work).node.ident.value)
    /\ Words(tokens) = LetW(X, <<Lit(1)>>) \o LetW(X, <<Lit(2)>>)

\* let x = 1; inside d scopes, j of them closed, then a read of or an
\* assignment to x, then the other closing braces
ClosedScopeW(ref, d, j) == ScopeProgram(<<>>, <<LetW(X, <<Lit(1)>>)>>, <<ref>>, d, j)

\* C6: a read of or an assignment to a name that no entry of the variable
\* table binds stops the generator with the undeclared-identifier error; in
\* particular a reference placed after the scope of its only let has closed,
\* at every depth of that scope and after any number of closing braces.
C6_Undeclared ==
    [][/\ (GenHeadNode("expr", "ident") /\ ~InScopeChain(Head(gen_work).node.tok.value))
            => (stage' = "gen_error" /\ diag' = SemanticError("Undeclared Identifier"))
       /\ (GenHeadNode("stmt", "assign") /\ ~InScopeChain(Head(gen_work).node.ident.value))
            => (stage' = "gen_error" /\ diag' = SemanticError("Undeclared identifier"))
       /\ (stage' \in {"run", "gen_error"} /\ stage = "gen")
            => \A d \in 1..MaxDepth : \A j \in 1..d :
                  \A ref \in {ExitW(<<X>>), AssignW(X, <<Lit(3)>>)} :
                     Words(tokens) = ClosedScopeW(ref, d, j)
                        => (stage' = "gen_error"
                              /\ diag'.msg \in {"Undeclared Identifier", "Undeclared identifier"})
      ]_vars

C6_Witness ==
    /\ stage = "gen_error"
    /\ diag.msg = "Undeclared Identifier"
    /\ Words(tokens) = ClosedScopeW(ExitW(<<X>>), MaxDepth, 1)
    /\ m_vars = <<>>
    /\ Len(m_scopes) = MaxDepth - 1

\* C7: let x = x; and let x = x + 1; with x unbound stop the generator with
\* the undeclared-identifier error; no code is returned.
C7_SelfInitialiser ==
    (Words(tokens) \in SelfInitPrograms /\ stage \in {"gen_error", "run", "halted"})
        => (stage = "gen_error" /\ diag = SemanticError("Undeclared Identifier"))

CondZero(c) == c \in {<<Lit(0)>>, <<Lit(2), W("minus"), Lit(2)>>}
CondFaults(c) == c = <<Lit(1), W("fslash"), Lit(0)>>

\* The branch an if chain with a final else runs: the first whose condition
\* is non-zero, Len(conds) + 1 for the else; 0 when a condition that has to be
\* evaluated divides by zero.
RECURSIVE Taken(_, _)
Taken(conds, k) ==
    IF k > Len(conds) THEN k
    ELSE IF CondFaults(conds[k]) THEN 0
    ELSE IF CondZero(conds[k]) THEN Taken(conds, k + 1)
    ELSE k

BranchCode(kind, k) == IF kind = "exit" THEN k ELSE Pow2(k - 1)

\* The chains with a final else, with their words and the branch they run
ElseChains ==
    {[kind |-> c.kind, words |-> IfProgramW(c.kind, c.conds, TRUE), taken |-> Taken(c.conds, 1)] :
        c \in IfChains}

\* C8: the code of an if chain with elif tails and a final else runs exactly
\* one branch, that of the first non-zero condition or else the else branch,
\* and evaluates no condition after it (a later 1/0 does not fault); the exit
\* status tells which branches ran.  if (0) { exit(1); } else { exit(2); }
\* exits with 2, if (1) { exit(1); } elif (1) { exit(2); } else { exit(3); }
\* with 1.
C8_OneBranch ==
    stage = "halted" =>
        \A words \in {Words(tokens)} :
            /\ \A c \in ElseChains :
                  (words = c.words /\ c.taken # 0)
                      => status = Status("exited", BranchCode(c.kind, c.taken))
            /\ words = IfProgramW("exit", <<<<Lit(0)>>>>, TRUE)
                  => status = Status("exited", 2)
            /\ words = IfProgramW("exit", <<<<Lit(1)>>, <<Lit(1)>>>>, TRUE)
                  => status = Status("exited", 1)

C8_Witness ==
    /\ Words(tokens) = IfProgramW("acc", <<<<Lit(0)>>, <<Lit(1)>>, <<Lit(1), W("fslash"), Lit(0)>>>>, TRUE)
    /\ Exited(2)

MissingParen == stage = "parse_error" /\ diag.kind = "expected" /\ diag.msg = to_string("close_paren")

\* C9 as stated: the line reported for a missing ) is the line of the token
\* found where the ) was expected.
C9_LineOfOffendingToken ==
    (MissingParen /\ diag.idx < Len(tokens)) => diag.line = tokens[diag.idx + 1].line

\* exit(1+2; laid out in every way the layouts of the model allow
UnclosedExit(toks) ==
    Words(toks) = <<W("exit"), W("open_paren"), Lit(1), W("plus"), Lit(2), W("semi")>>

\* C9: the line reported for a missing ) is the line of the token consumed
\* last, the one in front of the place where the ) was expected, wherever
\* the token found there is placed; exit(1+2; is such an error.
C9_LineOfLastConsumed ==
    /\ MissingParen => (diag.idx >= 1 /\ diag.line = tokens[diag.idx].line)
    /\ (UnclosedExit(tokens) /\ stage # "start") => (MissingParen /\ diag.idx = 5)

C9_Witness ==
    /\ UnclosedExit(tokens)
    /\ MissingParen
    /\ tokens[6].line = 2
    /\ diag.line = 1

\* C10: every syntax error the parser detects is reported with the expected
\* construct and the line of the token consumed last.
C10_ExpectedAndLine ==
    (stage = "parse_error" /\ diag.kind # "exception")
        => (diag.kind = "expected" /\ diag.idx >= 1 /\ diag.line = tokens[diag.idx].line)

\* A program whose last word, a closing brace, is missing: the scope it
\* closed (bare, or the body of if, elif or else) is open at the end.
UnclosedAtEnd(words) ==
    \E b \in BaseWords : b[Len(b)].type = "close_curly" /\ words = Remove(b, Len(b))

\* C11: when the tokens end inside an open scope the parser stops with the
\* error expected } at the line of the last token consumed.
C11_UnclosedScope ==
    (UnclosedAtEnd(Words(tokens)) /\ stage # "start")
        => /\ stage = "parse_error"
           /\ diag = Diag("expected", to_string("close_curly"),
                          tokens[Len(tokens)].line, Len(tokens))

\* C12: the tokenizer yields one token per lexeme, in order: a letter-led
\* alphanumeric run is a keyword when it equals exit, let, if, elif or else
\* and an identifier carrying the run otherwise, a digit run is an int_lit
\* carrying its digits, each symbol is its own kind, blanks yield nothing and
\* no other token carries a text; let x = 5; yields let, identifier x, =,
\* int_lit 5, ;.
C12_Lexemes ==
    stage = "start" =>
        /\ \A c \in LexCases : c.src = m_src => Words(tokens) = c.words
        /\ \A k \in 1..Len(tokens) :
              tokens[k].value # NoValue <=> tokens[k].type \in {"ident", "int_lit"}

C12_Witness ==
    /\ stage = "start"
    /\ m_src = LetExample.src
    /\ Words(tokens) = <<W("let"), X, W("eq"), Lit(5), W("semi")>>

TokenLines(toks) == [k \in 1..Len(toks) |-> toks[k].line]

\* C13: the line of every token is 1 + the number of newlines in front of it
\* in the text, whether a newline follows code, ends a // comment or lies
\* inside a /* */ comment.
C13_TokenLines ==
    stage = "start" => \A c \in CommentCases : c.src = m_src => TokenLines(tokens) = c.lines

\* C14: the text generate_program returns begins with the prologue and ends
\* with the epilogue that exits with status 0, and the run of the text of a
\* valid program that reaches no exit statement ends with status 0.
C14_DefaultExit ==
    /\ stage \in {"run", "halted"} =>
          /\ SubSeq(m_output, 1, 2) = <<Global, Start>>
          /\ SubSeq(m_output, Len(m_output) - 2, Len(m_output))
                = <<MovImm("rax", <<"6", "0">>), MovImm("rdi", <<"0">>), Syscall>>
    /\ (stage = "halted" /\ status.kind # "unmodelled"
            /\ RefValid(prog) /\ RefOutcome(prog).kind = "run")
          => status = Status("exited", 0)

Capacity == m_buffer + m_size

\* The blocks handed out lie inside the buffer, are aligned, and do not
\* overlap: each begins at or after the end of the one before.
BlocksInside ==
    \A k \in 1..Len(handed) :
        /\ handed[k].addr >= m_buffer
        /\ handed[k].addr + handed[k].type.size <= Capacity
        /\ handed[k].addr % handed[k].type.align = 0
        /\ k > 1 => handed[k].addr >= handed[k - 1].addr + handed[k - 1].type.size

ArenaInv ==
    /\ m_buffer <= m_offset
    /\ m_offset <= Capacity
    /\ BlocksInside

\* The padded size of a request, from the next free address on
PaddedSize(type) == AlignUp(m_offset, type.align) - m_offset + type.size

\* C15: the offset of the arena stays within 0..capacity and every block it
\* hands out lies inside the buffer; a request whose aligned size exceeds
\* the remaining bytes fails with std::bad_alloc and changes neither the
\* offset nor the blocks handed out before, and every other request succeeds.
C15_ArenaBounds ==
    /\ []ArenaInv
    /\ [][/\ last_alloc'.result = "bad_alloc"
              <=> PaddedSize(last_alloc'.type) > Capacity - m_offset
          /\ last_alloc'.result = "bad_alloc"
              => (m_offset' = m_offset /\ handed' = handed)
          /\ last_alloc'.result = "ok"
              => (/\ Len(handed') = Len(handed) + 1
                  /\ SubSeq(handed', 1, Len(handed)) = handed
                  /\ m_offset' = handed'[Len(handed')].addr + last_alloc'.type.size)]_arenaVars

C15_Witness ==
    /\ stage = "arena"
    /\ last_alloc.result = "bad_alloc"
    /\ Len(handed) >= 2
    /\ m_offset < Capacity
    /\ last_alloc.type.size <= Capacity - m_offset

\* The scopes entered and not yet left: the calls of generate_scope that
\* have not reached their end_scope
OpenScopes == Len(SelectSeq(gen_work, LAMBDA item : item.op = "end_scope"))

Last(seq) == seq[Len(seq)]

Front(seq) == SubSeq(seq, 1, Len(seq) - 1)

\* Every open scope has its checkpoint, and the checkpoints are sizes the
\* variable table has passed through, innermost last.
CheckpointsMatch ==
    stage = "gen" =>
        /\ Len(m_scopes) = OpenScopes
        /\ \A k \in 1..Len(m_scopes) :
            m_scopes[k] <= (IF k = Len(m_scopes) THEN Len(m_vars) ELSE m_scopes[k + 1])

\* C16: scopes nest in the generator.  Entering a scope pushes the size of
\* the variable table and nothing else; while the scope is open no step
\* changes the checkpoints or the entries of the table below the innermost
\* one; leaving the scope pops that checkpoint and cuts the table back to
\* it, so the table and the checkpoint stack are what they were at entry.
C16_ScopesNest ==
    /\ []CheckpointsMatch
    /\ [][stage = "gen" /\ stage' = "gen" =>
            IF Head(gen_work).op = "scope"
            THEN m_scopes' = Append(m_scopes, Len(m_vars)) /\ m_vars' = m_vars
            ELSE IF Head(gen_work).op = "end_scope"
            THEN /\ m_scopes' = Front(m_scopes)
                 /\ m_vars' = SubSeq(m_vars, 1, Last(m_scopes))
            ELSE /\ m_scopes' = m_scopes
                 /\ Len(m_vars') >= Len(m_vars)
                 /\ SubSeq(m_vars', 1, Len(m_vars)) = m_vars]_vars

\* end_scope has just removed the variables of an inner scope while a
\* variable of an enclosing scope that is still open stays in the table
C16_Witness ==
    /\ stage = "gen"
    /\ m_output # <<>>
    /\ Last(m_output) = AddRsp(8)
    /\ m_scopes # <<>>
    /\ Len(m_vars) > Last(m_scopes)
    /\ Last(m_scopes) > 0

\* The let statements written directly in a scope
DeclaredIn(scope) == Len(SelectSeq(scope.stmts, LAMBDA stmt : stmt.t = "let"))

\* The adjustments a program calls for, in the order its scopes are left:
\* those of the scopes inside a scope, then 8 bytes per variable declared
\* directly in it, and none at all for a scope that declares none.
RECURSIVE Adjustments(_)
RECURSIVE AdjustmentsOf(_, _)
AdjustmentsOf(stmts, k) ==
    IF k > Len(stmts) THEN <<>> ELSE Adjustments(stmts[k]) \o AdjustmentsOf(stmts, k + 1)

Adjustments(node) ==
    IF node.t = "scope"
    THEN AdjustmentsOf(node.stmts, 1)
            \o (IF DeclaredIn(node) = 0 THEN <<>> ELSE <<AddRsp(8 * DeclaredIn(node))>>)
    ELSE IF node.t \in {"if", "elif"}
    THEN Adjustments(node.scope) \o Adjustments(node.pred)
    ELSE IF node.t = "else"
    THEN Adjustments(node.scope)
    ELSE <<>>

IsAddRsp(line) == line.op = "add_rsp"

\* C17: the add rsp lines of a generated program are, scope by scope in the
\* order the scopes end, 8 bytes per variable declared directly in the
\* scope, with no line for a scope that declares no variable.
C17_ScopeCleanup ==
    stage = "run" => SelectSeq(m_output, IsAddRsp) = AdjustmentsOf(prog.stmts, 1)

\* A generated program with an empty scope inside a scope of two variables:
\* one adjustment, of 16 bytes
C17_Witness ==
    /\ stage = "run"
    /\ Len(prog.stmts) = 2
    /\ prog.stmts[1].t = "scope"
    /\ Len(prog.stmts[1].stmts) = 3
    /\ prog.stmts[1].stmts[2] = NodeScope(<<>>)
    /\ SelectSeq(m_output, IsAddRsp) = <<AddRsp(16)>>

ErrorStages == {"lex_error", "parse_error", "gen_error"}

GeneratorIdle == m_output = <<>> /\ gen_work = <<>> /\ m_vars = <<>> /\ m_scopes = <<>>

\* The parser works on the token vector of the whole source and the
\* generator on the tree of the whole token vector.
StagesInOrder ==
    /\ stage \in {"source", "lex_error"} => prog = NoNode /\ GeneratorIdle
    /\ stage \in {"start", "parse_error"} => GeneratorIdle
    /\ stage \in {"start", "parsed", "parse_error"} => tokenize(m_src) = LexOk(tokens)
    /\ stage = "lex_error" => tokenize(m_src).st # "ok"
    /\ stage = "parsed" =>
        \E engaged \in BOOLEAN :
            parse_prog(tokens, engaged).st = "ok" /\ parse_prog(tokens, engaged).node = prog
    /\ stage = "parse_error" =>
        \E engaged \in BOOLEAN :
            parse_prog(tokens, engaged).st # "ok" /\ parse_prog(tokens, engaged).diag = diag

Has(parts, kind) == \E k \in 1..Len(parts) : parts[k] = kind

\* The failure reported for a text of parts: the lexical one if there is a
\* "lex" part, else the syntactic one if there is a "syn" part, else the
\* semantic one if there is a "sem" part, wherever the parts stand.
Reported(parts) ==
    IF Has(parts, "lex") THEN stage = "lex_error" /\ diag.kind = "lexical"
    ELSE IF Has(parts, "syn")
    THEN stage = "parse_error" /\ diag.kind = "expected"
    ELSE IF Has(parts, "sem")
    THEN stage \in {"parsed", "gen_error"} /\ (stage = "gen_error" => diag.kind = "semantic")
    ELSE stage \notin ErrorStages

\* stated of the stages a run rests in: the errors, the tree returned, the
\* text returned and the end of its run
ErrorPriority ==
    stage \in ErrorStages \cup {"parsed", "run", "halted"} =>
        \A c \in StagedCases : c.src = m_src => Reported(c.parts)

Definitions(l) == {k \in 1..Len(m_output) : m_output[k] = Label(l)}

\* C19: in the text generated for a program, every label that a jz or a jmp
\* names is defined by exactly one line.
C19_LabelsDefinedOnce ==
    stage = "run" =>
        \A k \in 1..Len(m_output) :
            m_output[k].op \in {"jz", "jmp"} => Cardinality(Definitions(m_output[k].n)) = 1

\* The lines the claim calls for: the code of the right operand, then the
\* code of the left one, pop rax (left), pop rbx (right), the operation,
\* push rax.
RECURSIVE RightFirst(_)
RightFirst(e) ==
    CASE e.t = "int_lit" -> <<MovImm("rax", e.tok.value), PushReg("rax")>>
      [] e.t = "paren" -> RightFirst(e.expr)
      [] e.t \in BinOps ->
            RightFirst(e.rhs) \o RightFirst(e.lhs)
                \o <<PopReg("rax"), PopReg("rbx"), BinInstr(e.t), PushReg("rax")>>

\* The program is exit(E); with E a binary expression over literals
ExitsWithBinary ==
    /\ Parsed
    /\ Len(prog.stmts) = 1
    /\ prog.stmts[1].t = "exit"
    /\ prog.stmts[1].expr.t \in BinOps
    /\ ExprNames(prog.stmts[1].expr) = {}

\* The lines generated for the expression of exit(E); : those between
\* ;; exit and the mov rax, 60 of the statement
ExprLines == SubSeq(m_output, 4, Len(m_output) - 7)

BinaryEmitted ==
    /\ (ExitsWithBinary /\ stage \in {"run", "halted"})
            => ExprLines = RightFirst(prog.stmts[1].expr)
    /\ (ExitsWithBinary /\ GenHead("exit_rest")) => m_stack_size = 0 + 1
    /\ GenHead("bin_rest") => m_stack_size >= 2

ArithOps == {"add", "sub", "mul", "div"}

\* The position of the instruction of the outermost binary expression
LastArith == CHOOSE k \in 1..Len(m_output) :
                /\ m_output[k].op \in ArithOps
                /\ \A j \in (k + 1)..Len(m_output) : m_output[j].op \notin ArithOps

\* C20: a binary expression is generated as the code of its right operand,
\* the code of its left operand, pop rax, pop rbx, the operation, push rax,
\* the generator's stack height ending one above where it began; when the
\* operation runs rax holds the value of the left operand and rbx that of
\* the right one, and it leaves left-op-right in rax.
C20_BinaryExpression ==
    /\ []BinaryEmitted
    /\ [][(/\ ExitsWithBinary
           /\ stage = "run"
           /\ ip = LastArith
           /\ RefEval(prog.stmts[1].expr, <<>>).def
           /\ regs.rax # Wide /\ regs.rbx # Wide /\ status'.kind # "unmodelled")
            => /\ stage' = "run"
               /\ regs.rax = RefEval(prog.stmts[1].expr.lhs, <<>>).v
               /\ regs.rbx = RefEval(prog.stmts[1].expr.rhs, <<>>).v
               /\ regs'.rax = RefEval(prog.stmts[1].expr, <<>>).v]_vars

\* push and pop change m_stack_size by one with the line they write
\* (generation.hpp:327-342) and end_scope by pop_count with its add rsp
\* (generation.hpp:353-358): the lines among the first k that push, that pop,
\* and the slots the add rsp lines among them release.
PushLines(k) == {j \in 1..k : m_output[j].op \in {"push", "push_mem"}}

PopLines(k) == {j \in 1..k : m_output[j].op = "pop"}

Released(k) ==
    UNION {{<<j, slot>> : slot \in 1..(m_output[j].n \div 8)} :
              j \in {i \in 1..k : m_output[i].op = "add_rsp"}}

\* The value of m_stack_size once line k is written; line k itself is
\* written at the value EmittedHeight(k - 1).
EmittedHeight(k) == Cardinality(PushLines(k)) - Cardinality(PopLines(k)) - Cardinality(Released(k))

Generated == stage \in {"gen", "gen_error", "run", "halted"}

\* C21: the generator's stack height mirrors the depth of the machine stack.
\* The height is, after every step of the generator, the sum of the effects
\* of the lines written so far, and is never below zero, at no line; and in
\* every state of the run, whatever branches were taken, the depth of the
\* stack in front of the instruction to execute is the height at which that
\* instruction was written.
C21_HeightMirrorsDepth ==
    /\ Generated => (m_stack_size = EmittedHeight(Len(m_output)) /\ m_stack_size >= 0)
    /\ (stage = "run" /\ ip = 1) => \A k \in 0..Len(m_output) : EmittedHeight(k) >= 0
    /\ stage \in {"run", "halted"} => sp = EmittedHeight(ip - 1)

\* The run has jumped over a branch that declares a variable and releases
\* it: it stands at a label that follows a jmp, with a variable on the stack
C21_Witness ==
    /\ stage = "run"
    /\ ip > 1
    /\ m_output[ip].op = "label"
    /\ m_output[ip - 1].op = "jmp"
    /\ sp >= 1
    /\ \E k \in 1..(ip - 1) : m_output[k].op = "add_rsp"
    /\ sp = EmittedHeight(ip - 1)

\* C22: when a read of an identifier resolves to a binding, the offset
\* written is 8 * (height - recorded height of the binding - 1), a number
\* between 0 and 8 * (height - 1) (nothing wraps), and the slot the
\* generated push duplicates is an occupied slot of the stack.
C22_ReadOffset ==
    /\ [][(GenHeadNode("expr", "ident") /\ InScopeChain(Head(gen_work).node.tok.value))
            => \A loc \in {m_vars[FindVar(m_vars, Head(gen_work).node.tok.value)].stack_loc} :
                  /\ stage' = "gen"
                  /\ Last(m_output') = PushMem(8 * (m_stack_size - loc - 1))
                  /\ 8 * (m_stack_size - loc - 1) >= 0
                  /\ 8 * (m_stack_size - loc - 1) <= 8 * (m_stack_size - 1)]_vars
    /\ [](CpuAt("push_mem") => (SlotAt(m_output[ip].n) >= 1 /\ SlotAt(m_output[ip].n) <= sp))

\* The line ;; reassign of the assignment being generated
ReassignStart ==
    CHOOSE k \in 1..Len(m_output) :
        /\ m_output[k] = Comment("reassign")
        /\ \A j \in (k + 1)..Len(m_output) : m_output[j] # Comment("reassign")

\* The generator's side: the statement looks its variable up, generates the
\* expression, and its rest pops the value and writes the store; between
\* the two the table and the checkpoints do not change.
AssignGenerated ==
    /\ (GenHeadNode("stmt", "assign") /\ InScopeChain(Head(gen_work).node.ident.value))
        => /\ stage' = "gen"
           /\ m_vars' = m_vars /\ m_scopes' = m_scopes /\ m_stack_size' = m_stack_size
           /\ Head(gen_work') = WNode("expr", Head(gen_work).node.expr)
           /\ gen_work'[2].op = "assign_rest"
           /\ \A k \in 1..Len(m_vars) :
                 m_vars[k].name = Head(gen_work).node.ident.value
                    => gen_work'[2].a = m_vars[k].stack_loc
    /\ (stage = "gen" /\ Head(gen_work).op \in {"expr", "bin_rest"})
        => (m_vars' = m_vars /\ m_scopes' = m_scopes)
    /\ GenHead("assign_rest")
        => /\ stage' = "gen"
           /\ m_vars' = m_vars /\ m_scopes' = m_scopes
           /\ m_stack_size' = EmittedHeight(ReassignStart)
           /\ Head(gen_work).a < m_stack_size'
           /\ m_output' = m_output \o <<PopReg("rax"),
                                        Store(8 * (m_stack_size' - Head(gen_work).a - 1)),
                                        Comment("/reassign")>>

\* The machine's side: the store follows the pop of the value, writes that
\* value into one slot of the stack and changes nothing else.
StoreExecuted ==
    CpuAt("store")
        => /\ stage' = "run"
           /\ sp' = sp
           /\ m_output[ip - 1] = PopReg("rax")
           /\ regs.rax = mem[sp + 1]
           /\ \E slot \in 1..sp :
                 /\ slot = SlotAt(m_output[ip].n)
                 /\ mem' = [mem EXCEPT ![slot] = regs.rax]

\* C23: an assignment x = E; to a visible variable generates E, pops its
\* value and stores it into the slot of x.  The height, the variable table
\* and the checkpoints after the statement are those before it; the store
\* changes the slot of x and no other; a later read of x yields the value of
\* E and a read of another variable the value it had.
C23_AssignFrame ==
    /\ [][AssignGenerated /\ StoreExecuted]_vars
    /\ [](stage = "halted" /\ Words(tokens) \in AssignPrograms
            => status = Status("exited", RefOutcome(prog).code))

\* let x = 1; let t = 2; x = t + x; exit(t);  has run: x holds 3, t still 2
C23_Witness ==
    /\ Words(tokens) = AssignProgram(X, <<T, W("plus"), X>>, T)
    /\ Exited(2)
    /\ mem[1] = 3
    /\ mem[2] = 2
    /\ sp = 2

\* The entry of the variable table that declares name last
MostRecent(name) ==
    CHOOSE k \in 1..Len(m_vars) :
        /\ m_vars[k].name = name
        /\ \A j \in (k + 1)..Len(m_vars) : m_vars[j].name # name

\* C24: the binding that the lookup of a read or of an assignment returns
\* for a name is the entry of the variable table that declares that name
\* last: in every state of the generator the search finds that entry, the
\* read duplicates its slot and the assignment stores into it.
C24_NearestBinding ==
    /\ [](stage = "gen" =>
            \A k \in 1..Len(m_vars) : FindVar(m_vars, m_vars[k].name) = MostRecent(m_vars[k].name))
    /\ [][/\ (GenHeadNode("expr", "ident") /\ InScopeChain(Head(gen_work).node.tok.value))
               => Last(m_output') =
                     PushMem(8 * (m_stack_size
                                    - m_vars[MostRecent(Head(gen_work).node.tok.value)].stack_loc - 1))
          /\ (GenHeadNode("stmt", "assign") /\ InScopeChain(Head(gen_work).node.ident.value))
               => gen_work'[2].a = m_vars[MostRecent(Head(gen_work).node.ident.value)].stack_loc
         ]_vars

\* Inside a scope that has declared t, a read of x, declared outside it, has
\* just been generated
C24_Witness ==
    /\ stage = "gen"
    /\ m_output # <<>>
    /\ Last(m_output) = PushMem(8)
    /\ Len(m_vars) = 2
    /\ m_vars[1].name = X.value
    /\ m_scopes = <<1>>

\* The generator stands between two statements: in front of a statement, or
\* behind the last one of a scope or of the program
StatementBoundary ==
    /\ stage = "gen"
    /\ gen_work # <<>>
    /\ Head(gen_work).op \in {"stmt", "end_scope", "epilogue"}

\* C25: at every statement boundary the stack height is the number of
\* entries of the variable table, the entry at position i (from 0) has
\* stack location i, every checkpoint is at most the size of the table and
\* the checkpoints do not decrease from the outermost scope to the innermost.
C25_StatementBoundary ==
    StatementBoundary =>
        /\ m_stack_size = Len(m_vars)
        /\ \A i \in 0..(Len(m_vars) - 1) : m_vars[i + 1].stack_loc = i
        /\ \A k \in 1..Len(m_scopes) : m_scopes[k] <= Len(m_vars)
        /\ \A k \in 1..(Len(m_scopes) - 1) : m_scopes[k] <= m_scopes[k + 1]

\* Behind the last statement of a scope nested in another, with a variable
\* declared at each of the three levels
C25_Witness ==
    /\ StatementBoundary
    /\ Head(gen_work).op = "end_scope"
    /\ Len(m_vars) = 3
    /\ m_scopes = <<1, 2>>
    /\ m_stack_size = 3

====
